---------------------------- MODULE Spec2Model ----------------------------
(***************************************************************************)
(* A model of the web usability analyzer: the normalization pipeline of    *)
(* AIAnalysisEngine (lib/ai-analysis.ts), the HistoryManager and the       *)
(* Recent modal that share the 'analysisHistory' blob of local storage,    *)
(* and the todo export route.                                              *)
(*                                                                         *)
(* JavaScript values are tagged records: t is the type tag, v the payload. *)
(* A JS string is carried either as an atom (tag "str", v a TLA+ string)   *)
(* or, where the code looks inside it (issue descriptions, keywords), as   *)
(* its sequence of characters (tag "text").  A call that raises is the     *)
(* value Threw, which every caller propagates.                             *)
(***************************************************************************)
EXTENDS Integers, Sequences, FiniteSets, TLC

VARIABLES
    aiAnalysis,     \* the parsed provider reply handed to processAnalysisResult
    settings,       \* AnalysisSettings of the engine
    result,         \* what analyzeWebsite returned (NoResult before the call)
    taskInput,      \* arguments of one generateContextualTasks call
    taskOutput,     \* the task lists its runs returned, oldest first
    storage,        \* localStorage['analysisHistory']: Absent or the stored list
    clock,          \* Date.now() in milliseconds
    modalOpen,      \* RecentModal's prop isOpen
    modalHistory,   \* RecentModal's React state `history`
    lastOp,         \* the history operation that ran last, with what it read
    opCount,        \* number of history operations run so far
    exportInput,    \* request body of the todo export route
    exportOutput,   \* the response of the route (NoResult before the request)
    providerCall,   \* one getClaudeAnalysis / getOpenAIAnalysis call in progress
    page,           \* AnalysisPage: React state and the position of its run
    pageStore,      \* localStorage['crawlData'] and localStorage['analysisResult']
    crawlPages,     \* crawlData.pages handed to createAnalysisPrompt
    prompts         \* the prompt built for each analysis depth (NoResult before)

normVars    == <<aiAnalysis, settings, result>>
taskVars    == <<taskInput, taskOutput>>
historyVars == <<storage, clock, modalOpen, modalHistory, lastOp, opCount>>
exportVars  == <<exportInput, exportOutput>>
providerVars == <<providerCall>>
pipelineVars == <<page, pageStore>>
promptVars  == <<crawlPages, prompts>>
vars        == <<aiAnalysis, settings, result, taskInput, taskOutput, storage,
                 clock, modalOpen, modalHistory, lastOp, opCount, exportInput,
                 exportOutput, providerCall, page, pageStore, crawlPages, prompts>>

---------------------------------------------------------------------------
(* JavaScript values and the coercions the code relies on.                 *)

Undef    == [t |-> "undef"]
Null     == [t |-> "null"]
NaN      == [t |-> "nan"]
Threw    == [t |-> "threw"]
NoResult == [t |-> "none"]

Num(n)  == [t |-> "num", v |-> n]
Str(s)  == [t |-> "str", v |-> s]
Text(s) == [t |-> "text", v |-> s]
Arr(s)  == [t |-> "arr", v |-> s]

IsString(x) == x.t \in {"str", "text"}

\* ToBoolean: what `x || d` and `!x` test.
Truthy(x) ==
    CASE x.t \in {"undef", "null", "nan"} -> FALSE
      [] x.t = "num"  -> x.v # 0
      [] x.t = "str"  -> x.v # ""
      [] x.t = "text" -> x.v # << >>
      [] OTHER        -> TRUE

\* x || d
OrElse(x, d) == IF Truthy(x) THEN x ELSE d

\* The atoms of the input domain that parse as numbers; any other non-empty
\* string converts to NaN.
NumericStrings == ("150" :> 150) @@ ("40" :> 40)

\* ToNumber, as Math.min, Math.max and `<` apply it to their operands.
ToNumber(x) ==
    CASE x.t = "num"  -> x
      [] x.t = "null" -> Num(0)
      [] x.t = "str"  -> IF x.v = "" THEN Num(0)
                         ELSE IF x.v \in DOMAIN NumericStrings
                              THEN Num(NumericStrings[x.v]) ELSE NaN
      [] x.t = "text" -> IF x.v = << >> THEN Num(0) ELSE NaN
      [] x.t = "arr"  -> IF x.v = << >> THEN Num(0) ELSE NaN
      [] OTHER        -> NaN

MathMin(a, b) ==
    LET x == ToNumber(a)  y == ToNumber(b)
    IN  IF x.t = "nan" \/ y.t = "nan" THEN NaN
        ELSE IF x.v <= y.v THEN x ELSE y

MathMax(a, b) ==
    LET x == ToNumber(a)  y == ToNumber(b)
    IN  IF x.t = "nan" \/ y.t = "nan" THEN NaN
        ELSE IF x.v >= y.v THEN x ELSE y

\* a < b on values that are not both strings
LessThan(a, b) ==
    LET x == ToNumber(a)  y == ToNumber(b)
    IN  x.t = "num" /\ y.t = "num" /\ x.v < y.v

\* Math.round of the quotient n / d of integers, d > 0: floor(n/d + 1/2)
MathRoundDiv(n, d) == (2 * n + d) \div (2 * d)

\* String.prototype.toLowerCase on the letters A..Z
UpperCase == <<"A","B","C","D","E","F","G","H","I","J","K","L","M",
               "N","O","P","Q","R","S","T","U","V","W","X","Y","Z">>
LowerCase == <<"a","b","c","d","e","f","g","h","i","j","k","l","m",
               "n","o","p","q","r","s","t","u","v","w","x","y","z">>

toLowerCase(s) ==
    [i \in 1..Len(s) |->
        IF \E k \in 1..26 : UpperCase[k] = s[i]
        THEN LowerCase[CHOOSE k \in 1..26 : UpperCase[k] = s[i]]
        ELSE s[i]]

\* String.prototype.includes
includes(s, sub) ==
    \E i \in 1..(Len(s) - Len(sub) + 1) : SubSeq(s, i, i + Len(sub) - 1) = sub

\* Array.from(new Set(xs)): the first occurrence of each element, in order
RECURSIVE SetOrder(_)
SetOrder(xs) ==
    IF xs = << >> THEN << >>
    ELSE LET init == SetOrder(SubSeq(xs, 1, Len(xs) - 1))
             last == xs[Len(xs)]
         IN  IF \E i \in 1..Len(init) : init[i] = last THEN init
             ELSE Append(init, last)

\* Array.prototype.slice(0, n)
SliceTo(xs, n) == SubSeq(xs, 1, IF Len(xs) < n THEN Len(xs) ELSE n)

RECURSIVE Flatten(_)
Flatten(xss) == IF xss = << >> THEN << >> ELSE Head(xss) \o Flatten(Tail(xss))

RECURSIVE SumSeq(_)
SumSeq(xs) == IF xs = << >> THEN 0 ELSE Head(xs) + SumSeq(Tail(xs))

---------------------------------------------------------------------------
(* The category catalog.                                                   *)

USABILITY_CATEGORIES ==
    << [id |-> "navigation", name |-> "Navigation Clarity",
        description |-> "How easy it is to find and use navigation elements",
        weight |-> 20],
       [id |-> "content_hierarchy", name |-> "Content Hierarchy",
        description |-> "Clear visual hierarchy and content organization",
        weight |-> 18],
       [id |-> "page_names", name |-> "Page Names & Breadcrumbs",
        description |-> "Clear page identification and location awareness",
        weight |-> 15],
       [id |-> "search", name |-> "Search Functionality",
        description |-> "Effective search features and results",
        weight |-> 12],
       [id |-> "forms", name |-> "Forms & User Input",
        description |-> "User-friendly forms and input validation",
        weight |-> 10],
       [id |-> "mobile_usability", name |-> "Mobile Usability",
        description |-> "Mobile responsiveness and touch interactions",
        weight |-> 10],
       [id |-> "page_loading", name |-> "Page Loading & Performance",
        description |-> "Fast loading times and performance optimization",
        weight |-> 8],
       [id |-> "accessibility", name |-> "Accessibility",
        description |-> "Accessible design for all users",
        weight |-> 5],
       [id |-> "error_handling", name |-> "Error Handling",
        description |-> "Clear error messages and recovery paths",
        weight |-> 2] >>

CategoryIds == {USABILITY_CATEGORIES[i].id : i \in 1..Len(USABILITY_CATEGORIES)}

---------------------------------------------------------------------------
(* The fallback table of getKrugBasedRecommendations.                      *)

krug_unknown ==
    [ score |-> 50,
      assessment |-> "moderate",
      strengths |-> <<
          Str("Basic functionality appears to be present") >>,
      issues |-> <<
          [type |-> "medium",
           description |-> Text(<<"T", "h", "i", "s", " ", "a", "r", "e", "a", " ", "n", "e", "e", "d", "s", " ", "r", "e", "v",
                                 "i", "e", "w", " ", "f", "o", "r", " ", "K", "r", "u", "g", "'", "s", " ", "u", "s", "a", "b",
                                 "i", "l", "i", "t", "y", " ", "p", "r", "i", "n", "c", "i", "p", "l", "e", "s">>),
           element |-> Str("general"),
           krugPrinciple |-> Str("Don't make users think (Chapter 1)")] >>,
      recommendations |-> <<
          [t |-> "obj", action |-> Str("Review this area for Krug's usability principles"),
            userTask |-> Str("Apply self-evident design and user-centered thinking"),
            krugReference |-> Str("Chapter 1: Don't Make Me Think")] >>,
      implementationTasks |-> <<
          "[ ] Audit this area for clarity and user-friendliness",
          "[ ] Apply Krug's principle of self-evident design",
          "[ ] Test with real users for usability issues" >>,
      details |-> "This area should follow Krug's fundamental principles of clear, user-friendly design." ]

krugRecommendations ==
    ("navigation" :>
        [ score |-> 70,
          assessment |-> "moderate",
          strengths |-> <<
              Str("Basic navigation structure appears to be present"),
              Str("Navigation elements seem to be positioned conventionally") >>,
          issues |-> <<
              [type |-> "medium",
               description |-> Text(<<"N", "a", "v", "i", "g", "a", "t", "i", "o", "n", " ", "m", "a", "y", " ", "l", "a", "c", "k",
                                     " ", "\"", "y", "o", "u", " ", "a", "r", "e", " ", "h", "e", "r", "e", "\"", " ", "i", "n", "d",
                                     "i", "c", "a", "t", "o", "r", "s", " ", "f", "o", "r", " ", "l", "o", "c", "a", "t", "i", "o",
                                     "n", " ", "a", "w", "a", "r", "e", "n", "e", "s", "s">>),
               element |-> Str("site navigation"),
               krugPrinciple |-> Str("Users must always know where they are (Chapter 6)")],
              [type |-> "medium",
               description |-> Text(<<"B", "r", "e", "a", "d", "c", "r", "u", "m", "b", " ", "n", "a", "v", "i", "g", "a", "t", "i",
                                     "o", "n", " ", "m", "a", "y", " ", "b", "e", " ", "m", "i", "s", "s", "i", "n", "g">>),
               element |-> Str("navigation breadcrumbs"),
               krugPrinciple |-> Str("Show path from home to current location (Chapter 6)")] >>,
          recommendations |-> <<
              [t |-> "obj", action |-> Str("Implement persistent navigation on every page"),
                userTask |-> Str("Ensure site ID/logo, primary sections, and utilities appear consistently"),
                krugReference |-> Str("Chapter 6: Street Signs and Breadcrumbs")],
              [t |-> "obj", action |-> Str("Add \"you are here\" indicators"),
                userTask |-> Str("Highlight current page/section in navigation menu"),
                krugReference |-> Str("Chapter 6: Persistent Navigation")] >>,
          implementationTasks |-> <<
              "[ ] Design persistent navigation with site ID/logo linking to home",
              "[ ] Add primary sections and utilities (search, login, help)",
              "[ ] Implement current page indicators with visual styling",
              "[ ] Create breadcrumb trail showing path from home",
              "[ ] Test with \"trunk test\" - can users identify current location?" >>,
          details |-> "Navigation should follow Krug's principles of persistent, clear wayfinding that tells users where they are and where they can go." ]) @@
    ("content_hierarchy" :>
        [ score |-> 65,
          assessment |-> "moderate",
          strengths |-> <<
              Str("Content appears to have basic heading structure"),
              Str("Visual separation between different content areas seems present") >>,
          issues |-> <<
              [type |-> "medium",
               description |-> Text(<<"C", "o", "n", "t", "e", "n", "t", " ", "m", "a", "y", " ", "n", "o", "t", " ", "b", "e", " ",
                                     "o", "p", "t", "i", "m", "i", "z", "e", "d", " ", "f", "o", "r", " ", "s", "c", "a", "n", "n",
                                     "i", "n", "g", " ", "b", "e", "h", "a", "v", "i", "o", "r">>),
               element |-> Str("page content"),
               krugPrinciple |-> Str("Users scan, they don't read (Chapter 2)")],
              [type |-> "low",
               description |-> Text(<<"V", "i", "s", "u", "a", "l", " ", "h", "i", "e", "r", "a", "r", "c", "h", "y", " ", "c", "o",
                                     "u", "l", "d", " ", "b", "e", " ", "s", "t", "r", "e", "n", "g", "t", "h", "e", "n", "e", "d",
                                     " ", "f", "o", "r", " ", "b", "e", "t", "t", "e", "r", " ", "i", "n", "f", "o", "r", "m", "a",
                                     "t", "i", "o", "n", " ", "p", "r", "i", "o", "r", "i", "t", "i", "z", "a", "t", "i", "o", "n">>),
               element |-> Str("content layout"),
               krugPrinciple |-> Str("Make important things more prominent (Chapter 3)")] >>,
          recommendations |-> <<
              [t |-> "obj", action |-> Str("Implement clear visual hierarchy with prominent headings"),
                userTask |-> Str("Make important elements larger, bolder, or more prominent"),
                krugReference |-> Str("Chapter 3: Billboard Design 101")],
              [t |-> "obj", action |-> Str("Format text for scanning with bullet points and short paragraphs"),
                userTask |-> Str("Use descriptive headings and highlight key terms"),
                krugReference |-> Str("Chapter 3: Scannable Text")] >>,
          implementationTasks |-> <<
              "[ ] Implement visual hierarchy with important elements more prominent",
              "[ ] Use plenty of headings and subheadings for scanning",
              "[ ] Keep paragraphs short and use bulleted lists",
              "[ ] Highlight key terms and phrases",
              "[ ] Reduce visual noise and use white space effectively" >>,
          details |-> "Content should be designed like a billboard - clear, scannable, and immediately understandable." ]) @@
    ("page_names" :>
        [ score |-> 70,
          assessment |-> "moderate",
          strengths |-> <<
              Str("Pages appear to have titles or headings"),
              Str("Basic page identification seems to be in place") >>,
          issues |-> <<
              [type |-> "medium",
               description |-> Text(<<"P", "a", "g", "e", " ", "n", "a", "m", "e", "s", " ", "m", "a", "y", " ", "n", "o", "t", " ",
                                     "m", "a", "t", "c", "h", " ", "n", "a", "v", "i", "g", "a", "t", "i", "o", "n", " ", "l", "i",
                                     "n", "k", " ", "t", "e", "x", "t">>),
               element |-> Str("page titles"),
               krugPrinciple |-> Str("Page name should match what user clicked (Chapter 6)")] >>,
          recommendations |-> <<
              [t |-> "obj", action |-> Str("Ensure page names match navigation links exactly"),
                userTask |-> Str("Review all page titles for consistency with navigation text"),
                krugReference |-> Str("Chapter 6: Page Names")] >>,
          implementationTasks |-> <<
              "[ ] Create prominent page names matching navigation links",
              "[ ] Position page names as headings for unique content",
              "[ ] Implement breadcrumb trail for location awareness",
              "[ ] Test \"trunk test\" - can users identify where they are?" >>,
          details |-> "Clear page identification is essential for user orientation and confidence." ]) @@
    ("search" :>
        [ score |-> 60,
          assessment |-> "moderate",
          strengths |-> <<
              Str("Site may have search functionality available") >>,
          issues |-> <<
              [type |-> "medium",
               description |-> Text(<<"S", "e", "a", "r", "c", "h", " ", "f", "u", "n", "c", "t", "i", "o", "n", "a", "l", "i", "t",
                                     "y", " ", "m", "a", "y", " ", "n", "o", "t", " ", "f", "o", "l", "l", "o", "w", " ", "w", "e",
                                     "b", " ", "c", "o", "n", "v", "e", "n", "t", "i", "o", "n", "s">>),
               element |-> Str("search interface"),
               krugPrinciple |-> Str("Follow established web conventions (Chapter 3)")],
              [type |-> "low",
               description |-> Text(<<"S", "e", "a", "r", "c", "h", " ", "b", "o", "x", " ", "m", "a", "y", " ", "n", "o", "t", " ",
                                     "b", "e", " ", "i", "n", " ", "e", "x", "p", "e", "c", "t", "e", "d", " ", "l", "o", "c", "a",
                                     "t", "i", "o", "n", " ", "(", "t", "o", "p", " ", "r", "i", "g", "h", "t", ")">>),
               element |-> Str("search placement"),
               krugPrinciple |-> Str("Put things where users expect to find them (Chapter 3)")] >>,
          recommendations |-> <<
              [t |-> "obj", action |-> Str("Position search box in conventional location (top right)"),
                userTask |-> Str("Place search where users expect to find it"),
                krugReference |-> Str("Chapter 3: Web Conventions")] >>,
          implementationTasks |-> <<
              "[ ] Position search box in expected location (top right)",
              "[ ] Make search box prominent and obviously searchable",
              "[ ] Include search on every page for persistence",
              "[ ] Provide effective search results and suggestions" >>,
          details |-> "Search should follow web conventions and be self-evident to users." ]) @@
    ("forms" :>
        [ score |-> 65,
          assessment |-> "moderate",
          strengths |-> <<
              Str("Forms appear to have proper labels and structure"),
              Str("Basic form usability seems to be considered") >>,
          issues |-> <<
              [type |-> "medium",
               description |-> Text(<<"F", "o", "r", "m", "s", " ", "m", "a", "y", " ", "r", "e", "q", "u", "i", "r", "e", " ", "t",
                                     "o", "o", " ", "m", "u", "c", "h", " ", "t", "h", "i", "n", "k", "i", "n", "g", " ", "f", "r",
                                     "o", "m", " ", "u", "s", "e", "r", "s">>),
               element |-> Str("form interfaces"),
               krugPrinciple |-> Str("Eliminate question marks and make choices mindless (Chapter 4)")] >>,
          recommendations |-> <<
              [t |-> "obj", action |-> Str("Simplify form choices and reduce required fields"),
                userTask |-> Str("Audit forms for unnecessary complexity"),
                krugReference |-> Str("Chapter 4: Mindless Choices")] >>,
          implementationTasks |-> <<
              "[ ] Audit forms for unnecessary fields and complexity",
              "[ ] Make form choices obvious and mindless",
              "[ ] Associate form labels clearly with fields",
              "[ ] Provide clear, immediate help when needed",
              "[ ] Accept data in multiple formats where possible" >>,
          details |-> "Forms should require minimal thinking and provide clear, obvious choices." ]) @@
    ("mobile_usability" :>
        [ score |-> 65,
          assessment |-> "moderate",
          strengths |-> <<
              Str("Site has mobile viewport configuration"),
              Str("Basic responsive design appears to be implemented") >>,
          issues |-> <<
              [type |-> "medium",
               description |-> Text(<<"T", "o", "u", "c", "h", " ", "t", "a", "r", "g", "e", "t", "s", " ", "m", "a", "y", " ", "n",
                                     "o", "t", " ", "b", "e", " ", "o", "p", "t", "i", "m", "i", "z", "e", "d", " ", "f", "o", "r",
                                     " ", "t", "h", "u", "m", "b", "-", "f", "r", "i", "e", "n", "d", "l", "y", " ", "i", "n", "t",
                                     "e", "r", "a", "c", "t", "i", "o", "n">>),
               element |-> Str("mobile interface"),
               krugPrinciple |-> Str("Mobile requires different interaction patterns (Chapter 10)")] >>,
          recommendations |-> <<
              [t |-> "obj", action |-> Str("Ensure touch targets are thumb-friendly (44px minimum)"),
                userTask |-> Str("Review and resize all clickable elements for mobile"),
                krugReference |-> Str("Chapter 10: Mobile Design")] >>,
          implementationTasks |-> <<
              "[ ] Ensure touch targets are thumb-friendly (44px minimum)",
              "[ ] Prioritize most important content first on mobile",
              "[ ] Remove hover-dependent features for touch interfaces",
              "[ ] Test with actual devices, not just simulators",
              "[ ] Optimize images and minimize load times for mobile" >>,
          details |-> "Mobile design should accommodate touch interactions and content prioritization." ]) @@
    ("page_loading" :>
        [ score |-> 75,
          assessment |-> "good",
          strengths |-> <<
              Str("Page appears to load reasonably well"),
              Str("Basic performance optimization seems to be in place") >>,
          issues |-> <<
              [type |-> "low",
               description |-> Text(<<"L", "o", "a", "d", "i", "n", "g", " ", "s", "p", "e", "e", "d", " ", "o", "p", "t", "i", "m",
                                     "i", "z", "a", "t", "i", "o", "n", " ", "c", "o", "u", "l", "d", " ", "p", "r", "e", "s", "e",
                                     "r", "v", "e", " ", "m", "o", "r", "e", " ", "u", "s", "e", "r", " ", "g", "o", "o", "d", "w",
                                     "i", "l", "l">>),
               element |-> Str("site performance"),
               krugPrinciple |-> Str("Preserve user goodwill reservoir (Chapter 11)")] >>,
          recommendations |-> <<
              [t |-> "obj", action |-> Str("Optimize loading speed to preserve goodwill"),
                userTask |-> Str("Implement performance optimizations for faster perceived loading"),
                krugReference |-> Str("Chapter 11: Goodwill Reservoir")] >>,
          implementationTasks |-> <<
              "[ ] Optimize images and minimize HTTP requests",
              "[ ] Implement progressive loading for better perceived performance",
              "[ ] Minimize page load times across different connection types",
              "[ ] Use compression and caching strategies" >>,
          details |-> "Fast loading preserves user goodwill and supports seamless user experience." ]) @@
    ("accessibility" :>
        [ score |-> 60,
          assessment |-> "moderate",
          strengths |-> <<
              Str("Basic HTML structure appears to use semantic elements"),
              Str("Forms seem to have associated labels") >>,
          issues |-> <<
              [type |-> "high",
               description |-> Text(<<"M", "a", "y", " ", "b", "e", " ", "m", "i", "s", "s", "i", "n", "g", " ", "b", "a", "s", "i",
                                     "c", " ", "a", "c", "c", "e", "s", "s", "i", "b", "i", "l", "i", "t", "y", " ", "f", "e", "a",
                                     "t", "u", "r", "e", "s", " ", "t", "h", "a", "t", " ", "h", "e", "l", "p", " ", "e", "v", "e",
                                     "r", "y", "o", "n", "e">>),
               element |-> Str("site accessibility"),
               krugPrinciple |-> Str("Accessibility improvements help everyone (Chapter 12)")] >>,
          recommendations |-> <<
              [t |-> "obj", action |-> Str("Implement basic accessibility features first"),
                userTask |-> Str("Add alt text, proper headings, and keyboard navigation"),
                krugReference |-> Str("Chapter 12: Accessibility and You")] >>,
          implementationTasks |-> <<
              "[ ] Add alt text to all images",
              "[ ] Use heading tags correctly (H1, H2, H3)",
              "[ ] Associate form labels with fields",
              "[ ] Ensure keyboard accessibility for all interactive elements",
              "[ ] Test with screen reader software" >>,
          details |-> "Basic accessibility improvements often improve usability for everyone." ]) @@
    ("error_handling" :>
        [ score |-> 70,
          assessment |-> "moderate",
          strengths |-> <<
              Str("Site appears to have basic error handling in place") >>,
          issues |-> <<
              [type |-> "medium",
               description |-> Text(<<"E", "r", "r", "o", "r", " ", "m", "e", "s", "s", "a", "g", "e", "s", " ", "m", "a", "y", " ",
                                     "n", "o", "t", " ", "p", "r", "o", "v", "i", "d", "e", " ", "c", "l", "e", "a", "r", " ", "r",
                                     "e", "c", "o", "v", "e", "r", "y", " ", "p", "a", "t", "h", "s">>),
               element |-> Str("error handling"),
               krugPrinciple |-> Str("Help users recover gracefully and preserve goodwill (Chapter 11)")] >>,
          recommendations |-> <<
              [t |-> "obj", action |-> Str("Create helpful error messages with recovery steps"),
                userTask |-> Str("Write clear, specific error messages with actionable solutions"),
                krugReference |-> Str("Chapter 11: Common Courtesy")] >>,
          implementationTasks |-> <<
              "[ ] Write clear, helpful error messages",
              "[ ] Provide specific recovery suggestions",
              "[ ] Test error scenarios for user-friendliness",
              "[ ] Ensure errors don't break user workflow" >>,
          details |-> "Error handling should be courteous and helpful, preserving user goodwill." ])

\* { ...template, ...categoryData }
MakeCategory(template, data) ==
    [ t |-> "category",
      id |-> template.id, name |-> template.name,
      description |-> template.description, weight |-> template.weight,
      score |-> Num(data.score),
      assessment |-> Str(data.assessment),
      strengths |-> Arr(data.strengths),
      issues |-> data.issues,
      recommendations |-> Arr(data.recommendations),
      implementationTasks |-> data.implementationTasks,
      details |-> Str(data.details) ]

\* Mutant: the table lookup misses and every category gets the generic entry.
getKrugBasedRecommendations_generic(template) ==
    MakeCategory(template, krug_unknown)

getKrugBasedRecommendations(template) ==
    IF template.id \in DOMAIN krugRecommendations
    THEN MakeCategory(template, krugRecommendations[template.id])
    ELSE MakeCategory(template, krug_unknown)

---------------------------------------------------------------------------
(* Contextual implementation tasks.  Each mapping is the list of           *)
(* Object.entries(categoryMappings): keyword and task, in insertion order. *)

taskMappings ==
    ("navigation" :>
        << [keyword |-> <<"i","n","d","i","c","a","t","o","r","s">>,
            task |-> "[ ] Implement current page indicators in navigation menu"],
           [keyword |-> <<"l","o","c","a","t","i","o","n">>,
            task |-> "[ ] Add \"you are here\" indicators to show current location"],
           [keyword |-> <<"b","r","e","a","d","c","r","u","m","b">>,
            task |-> "[ ] Add breadcrumb navigation showing path from home"],
           [keyword |-> <<"p","e","r","s","i","s","t","e","n","t">>,
            task |-> "[ ] Ensure navigation appears consistently on all pages"],
           [keyword |-> <<"p","r","i","m","a","r","y">>,
            task |-> "[ ] Clearly identify primary navigation sections"],
           [keyword |-> <<"i","d","e","n","t","i","f","i","c","a","t","i","o","n">>,
            task |-> "[ ] Add prominent site logo/ID linking to homepage"],
           [keyword |-> <<"s","e","c","t","i","o","n","s">>,
            task |-> "[ ] Organize navigation into clear primary sections"] >>) @@
    ("content_hierarchy" :>
        << [keyword |-> <<"s","c","a","n","n","i","n","g">>,
            task |-> "[ ] Format content with headings and bullet points for scanning"],
           [keyword |-> <<"h","i","e","r","a","r","c","h","y">>,
            task |-> "[ ] Make important elements larger and more prominent"],
           [keyword |-> <<"v","i","s","u","a","l">>,
            task |-> "[ ] Strengthen visual hierarchy with better contrast and spacing"],
           [keyword |-> <<"n","o","i","s","e">>,
            task |-> "[ ] Reduce visual clutter and unnecessary elements"] >>) @@
    ("page_names" :>
        << [keyword |-> <<"m","a","t","c","h">>,
            task |-> "[ ] Ensure page titles match navigation link text exactly"],
           [keyword |-> <<"p","r","o","m","i","n","e","n","t">>,
            task |-> "[ ] Make page names more prominent and visible"],
           [keyword |-> <<"b","r","e","a","d","c","r","u","m","b">>,
            task |-> "[ ] Implement breadcrumb trail for page location"] >>) @@
    ("search" :>
        << [keyword |-> <<"l","o","c","a","t","i","o","n">>,
            task |-> "[ ] Move search box to expected location (top right)"],
           [keyword |-> <<"p","r","o","m","i","n","e","n","t">>,
            task |-> "[ ] Make search box more visible and obviously searchable"],
           [keyword |-> <<"c","o","n","v","e","n","t","i","o","n","s">>,
            task |-> "[ ] Follow standard web search conventions"] >>) @@
    ("forms" :>
        << [keyword |-> <<"t","h","i","n","k","i","n","g">>,
            task |-> "[ ] Simplify form choices to require less user thinking"],
           [keyword |-> <<"r","e","q","u","i","r","e","d">>,
            task |-> "[ ] Reduce number of required form fields"],
           [keyword |-> <<"l","a","b","e","l","s">>,
            task |-> "[ ] Improve form label clarity and association"],
           [keyword |-> <<"h","e","l","p">>,
            task |-> "[ ] Add contextual help for complex form fields"] >>) @@
    ("mobile_usability" :>
        << [keyword |-> <<"t","o","u","c","h">>,
            task |-> "[ ] Increase touch target sizes to 44px minimum"],
           [keyword |-> <<"t","h","u","m","b">>,
            task |-> "[ ] Optimize interface for thumb-friendly navigation"],
           [keyword |-> <<"r","e","s","p","o","n","s","i","v","e">>,
            task |-> "[ ] Improve responsive design for mobile devices"],
           [keyword |-> <<"c","o","n","t","e","n","t">>,
            task |-> "[ ] Prioritize most important content for mobile"] >>) @@
    ("page_loading" :>
        << [keyword |-> <<"s","p","e","e","d">>,
            task |-> "[ ] Optimize images and minimize HTTP requests"],
           [keyword |-> <<"p","e","r","f","o","r","m","a","n","c","e">>,
            task |-> "[ ] Implement performance optimizations"],
           [keyword |-> <<"l","o","a","d","i","n","g">>,
            task |-> "[ ] Add progressive loading for better perceived speed"] >>) @@
    ("accessibility" :>
        << [keyword |-> <<"a","l","t">>,
            task |-> "[ ] Add alt text to all images"],
           [keyword |-> <<"h","e","a","d","i","n","g","s">>,
            task |-> "[ ] Use proper heading structure (H1, H2, H3)"],
           [keyword |-> <<"l","a","b","e","l","s">>,
            task |-> "[ ] Associate form labels with input fields"],
           [keyword |-> <<"k","e","y","b","o","a","r","d">>,
            task |-> "[ ] Ensure full keyboard accessibility"],
           [keyword |-> <<"s","k","i","p">>,
            task |-> "[ ] Add skip navigation links"] >>) @@
    ("error_handling" :>
        << [keyword |-> <<"m","e","s","s","a","g","e","s">>,
            task |-> "[ ] Write clearer, more helpful error messages"],
           [keyword |-> <<"r","e","c","o","v","e","r","y">>,
            task |-> "[ ] Provide specific recovery steps for errors"],
           [keyword |-> <<"g","r","a","c","e","f","u","l">>,
            task |-> "[ ] Implement graceful error handling"] >>)

essentialTasks ==
    "navigation" :> <<"[ ] Review navigation structure for clarity and consistency">> @@
    "content_hierarchy" :> <<"[ ] Audit content for scannability and visual hierarchy">> @@
    "page_names" :> <<"[ ] Review all page titles for consistency">> @@
    "search" :> <<"[ ] Test search functionality and placement">> @@
    "forms" :> <<"[ ] Conduct form usability review">> @@
    "mobile_usability" :> <<"[ ] Test mobile experience on actual devices">> @@
    "page_loading" :> <<"[ ] Measure and optimize page loading times">> @@
    "accessibility" :> <<"[ ] Conduct basic accessibility audit">> @@
    "error_handling" :> <<"[ ] Review and improve error handling workflows">>

\* The first entry of the mapping whose keyword the description includes.
RECURSIVE FirstKeywordMatch(_, _, _)
FirstKeywordMatch(mapping, description, i) ==
    IF i > Len(mapping) THEN Null
    ELSE IF includes(description, mapping[i].keyword) THEN Str(mapping[i].task)
         ELSE FirstKeywordMatch(mapping, description, i + 1)

\* Str(task), Null when nothing matches, Threw when issue.description has no
\* toLowerCase method (it is not a string).  Descriptions that are strings
\* are carried as "text".
getTaskMappingForIssue(categoryId, issue) ==
    IF categoryId \notin DOMAIN taskMappings THEN Null
    ELSE IF issue.description.t # "text" THEN Threw
    ELSE FirstKeywordMatch(taskMappings[categoryId],
                           toLowerCase(issue.description.v), 1)

getAdditionalTasksForCategory(categoryId) ==
    IF categoryId \in DOMAIN essentialTasks THEN essentialTasks[categoryId]
    ELSE << >>

\* The tasks.push loop over the issues: the mapped tasks in issue order.
RECURSIVE MappedTasks(_, _)
MappedTasks(categoryId, issues) ==
    IF issues = << >> THEN << >>
    ELSE LET m == getTaskMappingForIssue(categoryId, Head(issues))
         IN  IF m.t = "str" THEN <<m.v>> \o MappedTasks(categoryId, Tail(issues))
             ELSE MappedTasks(categoryId, Tail(issues))

MAX_TASKS == 3
LOW_SCORE == 60
DEFAULT_SCORE == 50

\* Mutant: the tasks are cut to three without removing duplicates first.
generateContextualTasks_noDedupe(categoryId, issues, aiCategory) ==
    IF \E i \in 1..Len(issues) :
           getTaskMappingForIssue(categoryId, issues[i]).t = "threw"
    THEN Threw
    ELSE LET tasks == MappedTasks(categoryId, issues)
             score == OrElse(aiCategory.score, Num(DEFAULT_SCORE))
             all   == IF tasks = << >> /\ LessThan(score, Num(LOW_SCORE))
                      THEN getAdditionalTasksForCategory(categoryId)
                      ELSE tasks
         IN  Arr(SliceTo(all, MAX_TASKS))

\* Mutant: the category's generic task is added whatever the score is.
generateContextualTasks_anyScore(categoryId, issues, aiCategory) ==
    IF \E i \in 1..Len(issues) :
           getTaskMappingForIssue(categoryId, issues[i]).t = "threw"
    THEN Threw
    ELSE LET tasks == MappedTasks(categoryId, issues)
             all   == IF tasks = << >>
                      THEN getAdditionalTasksForCategory(categoryId)
                      ELSE tasks
         IN  Arr(SliceTo(SetOrder(all), MAX_TASKS))

\* Arr of the task strings, or Threw.
generateContextualTasks(categoryId, issues, aiCategory) ==
    IF \E i \in 1..Len(issues) :
           getTaskMappingForIssue(categoryId, issues[i]).t = "threw"
    THEN Threw
    ELSE LET tasks == MappedTasks(categoryId, issues)
             score == OrElse(aiCategory.score, Num(DEFAULT_SCORE))
             all   == IF tasks = << >> /\ LessThan(score, Num(LOW_SCORE))
                      THEN getAdditionalTasksForCategory(categoryId)
                      ELSE tasks
         IN  Arr(SliceTo(SetOrder(all), MAX_TASKS))

---------------------------------------------------------------------------
(* processAnalysisResult and the rest of analyzeWebsite.                   *)

MOBILE_ID == "mobile_usability"

NoDescription ==
    Text(<<"N","o"," ","d","e","s","c","r","i","p","t","i","o","n"," ",
           "p","r","o","v","i","d","e","d">>)

SeverityLevels == {"high", "medium", "low"}

\* Array.prototype.find(cat => cat.id === id) from index i: the entry, Undef
\* when there is none, Threw when the callback reads .id of null.
RECURSIVE FindCategory(_, _, _)
FindCategory(cats, id, i) ==
    IF i > Len(cats) THEN Undef
    ELSE IF cats[i].t = "null" THEN Threw
    ELSE IF cats[i].t = "obj" /\ cats[i].id.t = "str" /\ cats[i].id.v = id
         THEN cats[i]
         ELSE FindCategory(cats, id, i + 1)

\* aiAnalysis.categories?.find(...)
LookupCategory(analysis, id) ==
    LET cats == analysis.categories
    IN  CASE cats.t \in {"undef", "null"} -> Undef
          [] cats.t = "arr"               -> FindCategory(cats.v, id, 1)
          [] OTHER                        -> Threw

\* Mutant: any string type is kept without checking it against the levels.
ValidateIssue_unchecked(issue) ==
    IF issue.t = "obj"
    THEN [ type |-> IF issue.type.t = "str" THEN issue.type.v ELSE "medium",
           description |-> OrElse(issue.description, NoDescription),
           element |-> OrElse(issue.element, Undef),
           page |-> OrElse(issue.page, Undef),
           krugPrinciple |-> OrElse(issue.krugPrinciple, Undef) ]
    ELSE [ type |-> "medium", description |-> NoDescription,
           element |-> Undef, page |-> Undef, krugPrinciple |-> Undef ]

\* One element of the validatedIssues map; issue is not null.
ValidateIssue(issue) ==
    IF issue.t = "obj"
    THEN [ type |-> IF issue.type.t = "str" /\ issue.type.v \in SeverityLevels
                    THEN issue.type.v ELSE "medium",
           description |-> OrElse(issue.description, NoDescription),
           element |-> OrElse(issue.element, Undef),
           page |-> OrElse(issue.page, Undef),
           krugPrinciple |-> OrElse(issue.krugPrinciple, Undef) ]
    ELSE [ type |-> "medium", description |-> NoDescription,
           element |-> Undef, page |-> Undef, krugPrinciple |-> Undef ]

\* (aiCategory.issues || []).map(...): Arr of the validated issues, or Threw
\* when the value has no map method or an element is null.
ValidatedIssues(aiCategory) ==
    LET raw == OrElse(aiCategory.issues, Arr(<< >>))
    IN  IF raw.t # "arr" THEN Threw
        ELSE IF \E i \in 1..Len(raw.v) : raw.v[i].t = "null" THEN Threw
        ELSE Arr([i \in 1..Len(raw.v) |-> ValidateIssue(raw.v[i])])

\* x.length > 0
HasPositiveLength(x) ==
    CASE x.t = "arr"  -> x.v # << >>
      [] x.t = "text" -> x.v # << >>
      [] x.t = "str"  -> x.v # ""
      [] OTHER        -> FALSE

\* Mutant: the lower clamp (Math.max) is left out.
ClampScore_noFloor(score) == MathMin(Num(100), OrElse(score, Num(DEFAULT_SCORE)))

ClampScore(score) == MathMax(Num(0), MathMin(Num(100), OrElse(score, Num(DEFAULT_SCORE))))

\* The strings of the input domain that trim() leaves empty
BlankStrings == {"", " ", "   "}

\* Array.isArray(aiCategory.strengths) ? the non-blank strings of it : []
ValidatedStrengths(aiCategory) ==
    IF aiCategory.strengths.t = "arr"
    THEN LET IsStrength(x) == x.t = "str" /\ x.v \notin BlankStrings
         IN  SelectSeq(aiCategory.strengths.v, IsStrength)
    ELSE << >>

AssessmentLevels == {"excellent", "good", "moderate", "poor"}

ValidAssessment(aiCategory) ==
    IF aiCategory.assessment.t = "str" /\ aiCategory.assessment.v \in AssessmentLevels
    THEN aiCategory.assessment
    ELSE Str("moderate")

\* The body of the USABILITY_CATEGORIES.map callback: a category, or Threw.
ProcessCategory(template, analysis) ==
    LET aiCategory == LookupCategory(analysis, template.id)
    IN  IF aiCategory.t = "threw" THEN Threw
        ELSE IF ~Truthy(aiCategory) THEN getKrugBasedRecommendations(template)
        ELSE
          LET krugFallback == getKrugBasedRecommendations(template)
              issues == ValidatedIssues(aiCategory)
              tasks  == IF issues.t = "threw" THEN Threw
                        ELSE generateContextualTasks(template.id, issues.v, aiCategory)
          IN  IF tasks.t = "threw" THEN Threw
              ELSE [ t |-> "category",
                     id |-> template.id, name |-> template.name,
                     description |-> template.description,
                     weight |-> template.weight,
                     score |-> ClampScore(aiCategory.score),
                     assessment |-> ValidAssessment(aiCategory),
                     strengths |->
                         IF ValidatedStrengths(aiCategory) # << >>
                         THEN Arr(ValidatedStrengths(aiCategory))
                         ELSE krugFallback.strengths,
                     issues |-> issues.v,
                     recommendations |->
                         IF Truthy(aiCategory.recommendations)
                            /\ HasPositiveLength(aiCategory.recommendations)
                         THEN aiCategory.recommendations
                         ELSE krugFallback.recommendations,
                     implementationTasks |-> tasks.v,
                     details |-> OrElse(aiCategory.details, krugFallback.details) ]

IsNotMobile(cat) == cat.id # MOBILE_ID

\* Mutant: the mobile filter is left out.
processAnalysisResult_noFilter(analysis, includeMobile) ==
    LET categories == [i \in 1..Len(USABILITY_CATEGORIES) |->
                          ProcessCategory(USABILITY_CATEGORIES[i], analysis)]
    IN  IF \E i \in 1..Len(categories) : categories[i].t = "threw" THEN Threw
        ELSE Arr(categories)

\* Arr of the categories, or Threw.
processAnalysisResult(analysis, includeMobile) ==
    LET categories == [i \in 1..Len(USABILITY_CATEGORIES) |->
                          ProcessCategory(USABILITY_CATEGORIES[i], analysis)]
    IN  IF \E i \in 1..Len(categories) : categories[i].t = "threw" THEN Threw
        ELSE IF ~includeMobile THEN Arr(SelectSeq(categories, IsNotMobile))
        ELSE Arr(categories)

\* Mutant: the weighted sum is divided by the catalog's total weight, 100,
\* whatever categories are in the list.
calculateOverallScore_fixedTotal(categories) ==
    LET weightedScore == SumSeq([i \in 1..Len(categories) |->
                                    IF categories[i].score.t = "num"
                                    THEN categories[i].score.v * categories[i].weight
                                    ELSE 0])
    IN  IF \E i \in 1..Len(categories) : categories[i].score.t # "num" THEN NaN
        ELSE Num(MathRoundDiv(weightedScore, 100))

\* Num(the rounded weighted mean), NaN when a score is NaN.
calculateOverallScore(categories) ==
    LET totalWeight   == SumSeq([i \in 1..Len(categories) |-> categories[i].weight])
        weightedScore == SumSeq([i \in 1..Len(categories) |->
                                    IF categories[i].score.t = "num"
                                    THEN categories[i].score.v * categories[i].weight
                                    ELSE 0])
    IN  IF \E i \in 1..Len(categories) : categories[i].score.t # "num" THEN NaN
        ELSE Num(MathRoundDiv(weightedScore, totalWeight))

IsHigh(issue)   == issue.type = "high"
IsMedium(issue) == issue.type = "medium"
IsLow(issue)    == issue.type = "low"

\* cat.recommendations || [] as flatMap flattens it: an array gives its
\* elements, a string gives itself.
RecommendationItems(cat) ==
    IF cat.recommendations.t = "arr" THEN cat.recommendations.v
    ELSE IF Truthy(cat.recommendations) THEN <<cat.recommendations>>
    ELSE << >>

TOP_RECOMMENDATIONS == 5

\* The summary record, or Threw when one of the first five recommendations is
\* null (rec.action of null).
generateSummary(categories) ==
    LET allIssues == Flatten([i \in 1..Len(categories) |-> categories[i].issues])
        allRecommendations ==
            Flatten([i \in 1..Len(categories) |-> RecommendationItems(categories[i])])
        top == SliceTo(allRecommendations, TOP_RECOMMENDATIONS)
    IN  IF \E i \in 1..Len(top) : top[i].t = "null" THEN Threw
        ELSE [ t |-> "summary",
               highIssues   |-> Len(SelectSeq(allIssues, IsHigh)),
               mediumIssues |-> Len(SelectSeq(allIssues, IsMedium)),
               lowIssues    |-> Len(SelectSeq(allIssues, IsLow)),
               recommendations |->
                   [i \in 1..Len(top) |->
                       IF IsString(top[i]) THEN top[i]
                       ELSE IF top[i].t = "obj" THEN top[i].action ELSE Undef] ]

\* The overallAssessment of the report
ProcessOverallAssessment(analysis) ==
    LET raw == analysis.overallAssessment
        Field(name) == IF raw.t = "obj" THEN raw[name] ELSE Undef
        IsStrength(x) == x.t = "str" /\ x.v \notin BlankStrings
    IN  IF ~Truthy(raw) THEN Undef
        ELSE [ t |-> "obj",
               level |-> IF Field("level").t = "str" /\ Field("level").v \in AssessmentLevels
                         THEN Field("level") ELSE Str("moderate"),
               message |-> OrElse(Field("message"), Str("Website analysis completed")),
               strengths |-> IF Field("strengths").t = "arr"
                             THEN Arr(SelectSeq(Field("strengths").v, IsStrength))
                             ELSE Arr(<< >>) ]

\* AIAnalysisEngine.analyzeWebsite once getAIAnalysis has returned `analysis`:
\* the report, or Threw.  The crawl data, which the report carries as it was
\* given, is not part of the record.
analyzeWebsite(url, analysis, engineSettings, now) ==
    IF engineSettings.aiKey = "" THEN Threw
    ELSE LET categories == processAnalysisResult(analysis, engineSettings.includeMobile)
         IN  IF categories.t = "threw" THEN Threw
             ELSE LET summary == generateSummary(categories.v)
                  IN  IF summary.t = "threw" THEN Threw
                      ELSE [ t |-> "report", url |-> url, timestamp |-> now,
                             settings |-> engineSettings,
                             overallScore |-> calculateOverallScore(categories.v),
                             overallAssessment |-> ProcessOverallAssessment(analysis),
                             categories |-> categories.v,
                             summary |-> summary ]

---------------------------------------------------------------------------
(* The provider replies the pipeline is run on.                            *)

MaxRawCategories == 2
MaxRawIssues == 2

D_Breadcrumb == Text(<<"N","o"," ","B","r","e","a","d","c","r","u","m","b">>)
D_Location   == Text(<<"l","o","c","a","t","i","o","n">>)
D_Touch      == Text(<<"T","O","U","C","H"," ","a","r","e","a">>)
D_Slow       == Text(<<"s","l","o","w">>)

RawTypes == {Str("high"), Str("medium"), Str("low"), Str("urgent"), Undef, Num(1)}
RawDescriptions == {D_Breadcrumb, D_Location, D_Touch, D_Slow, Text(<< >>), Undef, Num(5)}

RawIssue(type, description) ==
    [t |-> "obj", type |-> type, description |-> description,
     element |-> Undef, page |-> Undef, krugPrinciple |-> Undef]

LocatedIssue ==
    [t |-> "obj", type |-> Str("low"), description |-> D_Slow,
     element |-> Str("img.hero"), page |-> Str(""), krugPrinciple |-> Str("Chapter 5")]

RawIssues ==
    {RawIssue(ty, d) : ty \in RawTypes, d \in {D_Breadcrumb, Undef}}
    \cup {RawIssue(Str("high"), d) : d \in RawDescriptions}
    \cup {Null, Num(7)}

\* Issues that follow the first one in a list.
MoreRawIssues ==
    {RawIssue(Str("urgent"), D_Location), RawIssue(Undef, D_Touch), LocatedIssue}

RECURSIVE IssueSeqs(_)
IssueSeqs(n) ==
    IF n = 0 THEN {<< >>}
    ELSE IF n = 1 THEN {<<i>> : i \in RawIssues}
    ELSE {Append(s, i) : s \in IssueSeqs(n - 1), i \in MoreRawIssues}

RawIssueLists ==
    {Undef, Str("none")} \cup {Arr(s) : s \in UNION {IssueSeqs(n) : n \in 0..MaxRawIssues}}

RawScores ==
    {Undef, Null, Num(-10), Num(0), Num(40), Num(80), Num(100), Num(150),
     Str("150"), Str("abc")}

RawRecommendation(action, userTask, krugReference) ==
    [t |-> "obj", action |-> action, userTask |-> userTask,
     krugReference |-> krugReference]

RawRecommendationLists ==
    {Undef, Arr(<< >>), Str("Improve navigation"),
     Arr(<<Str("Shorten the menu")>>),
     Arr(<<RawRecommendation(Str("Add search"), Str("Find search"), Undef)>>),
     Arr(<<Null>>)}

RawCategory(id, score, issues, recommendations, details) ==
    [t |-> "obj", id |-> id, score |-> score, issues |-> issues,
     recommendations |-> recommendations, details |-> details,
     assessment |-> Undef, strengths |-> Undef, implementationTasks |-> Undef]

\* A task list the provider supplies with a category.
ProviderTasks == Arr(<<Str("[ ] Rewrite the navigation labels")>>)

RawAssessments == {Str("good"), Str("great"), Num(1)}

RawStrengthLists ==
    {Str("many"), Arr(<< >>), Arr(<<Str("   "), Num(3)>>),
     Arr(<<Str("Clear menu"), Str(""), Str("Short labels")>>)}

\* A category that carries an assessment and strengths.
AssessedCategory(assessment, strengths) ==
    [RawCategory(Str("navigation"), Num(80), Undef, Undef, Undef)
        EXCEPT !.assessment = assessment, !.strengths = strengths]

\* What the first element of `categories` ranges over.
FirstRawCategories ==
    {RawCategory(Str(id), s, Undef, Undef, Undef) :
        id \in {"navigation", MOBILE_ID, "bogus"}, s \in RawScores}
    \cup {RawCategory(Str("navigation"), s, i, Undef, Undef) :
        s \in {Num(40), Num(80)}, i \in RawIssueLists}
    \cup {RawCategory(Str(MOBILE_ID), Num(40), i, Undef, Undef) : i \in RawIssueLists}
    \cup {RawCategory(Str("navigation"), Num(80), Undef, r, d) :
        r \in RawRecommendationLists, d \in {Undef, Str("Navigation is clear")}}
    \cup {AssessedCategory(a, st) : a \in RawAssessments, st \in RawStrengthLists}
    \cup {[RawCategory(Str("navigation"), s, i, Undef, Undef)
               EXCEPT !.implementationTasks = ProviderTasks] :
           s \in {Num(40), Num(80)}, i \in RawIssueLists}
    \cup {Null}

\* What the elements after the first range over.
MoreRawCategories ==
    {RawCategory(Str("navigation"), Num(-10), Undef, Undef, Undef),
     RawCategory(Str(MOBILE_ID), Num(150),
                 Arr(<<RawIssue(Str("high"), D_Touch)>>), Undef, Undef),
     RawCategory(Str("forms"), Num(55), Arr(<< >>), Undef, Undef),
     RawCategory(Undef, Num(10), Undef, Undef, Undef)}

RECURSIVE CategorySeqs(_)
CategorySeqs(n) ==
    IF n = 0 THEN {<< >>}
    ELSE IF n = 1 THEN {<<c>> : c \in FirstRawCategories}
    ELSE {Append(s, c) : s \in CategorySeqs(n - 1), c \in MoreRawCategories}

RawOverallAssessments ==
    {Str("good"),
     [t |-> "obj", level |-> Str("good"), message |-> Undef,
      strengths |-> Arr(<<Str("Clear navigation structure"), Str(" ")>>)],
     [t |-> "obj", level |-> Str("fine"), message |-> Str("Solid foundations"),
      strengths |-> Undef]}

RawResponses ==
    {[categories |-> c, overallAssessment |-> Undef] :
        c \in {Undef, Null, Str("n/a")}
              \cup {Arr(s) : s \in UNION {CategorySeqs(n) : n \in 0..MaxRawCategories}}}
    \cup {[categories |-> Arr(<< >>), overallAssessment |-> a] : a \in RawOverallAssessments}

EngineSettings ==
    [aiKey : {"", "sk-key"}, aiProvider : {"claude"}, analysisDepth : {"standard"},
     includeMobile : BOOLEAN]

SITE_URL == "https://example.com"

---------------------------------------------------------------------------
(* Values of the variables of a part that a specification does not run.    *)

Absent == [t |-> "absent"]

IdleNorm ==
    /\ aiAnalysis = [categories |-> Undef, overallAssessment |-> Undef]
    /\ settings = [aiKey |-> "sk-key", aiProvider |-> "claude",
                   analysisDepth |-> "standard", includeMobile |-> TRUE]
    /\ result = NoResult

IdleTasks ==
    /\ taskInput = NoResult
    /\ taskOutput = << >>

IdleHistory ==
    /\ storage = Absent
    /\ clock = 0
    /\ modalOpen = FALSE
    /\ modalHistory = << >>
    /\ lastOp = [op |-> "none"]
    /\ opCount = 0

IdleExport ==
    /\ exportInput = NoResult
    /\ exportOutput = NoResult

IdleProvider == providerCall = NoResult

IdlePipeline ==
    /\ page = NoResult
    /\ pageStore = NoResult

IdlePrompt ==
    /\ crawlPages = << >>
    /\ prompts = NoResult

---------------------------------------------------------------------------
(* The normalization pipeline on one provider reply.                       *)

InitNorm ==
    /\ aiAnalysis \in RawResponses
    /\ settings \in EngineSettings
    /\ result = NoResult
    /\ IdleTasks /\ IdleHistory /\ IdleExport /\ IdleProvider /\ IdlePipeline /\ IdlePrompt

Analyze ==
    /\ result = NoResult
    /\ result' = analyzeWebsite(SITE_URL, aiAnalysis, settings, clock)
    /\ UNCHANGED <<aiAnalysis, settings, taskVars, historyVars, exportVars, providerVars, pipelineVars,
                   promptVars>>

NextNorm == Analyze

SpecNorm == InitNorm /\ [][NextNorm]_vars

---------------------------------------------------------------------------
(* The history store: HistoryManager and the Recent modal on the           *)
(* 'analysisHistory' blob.  A history item carries its id (Date.now() at   *)
(* the save), url and timestamp (milliseconds); a URL is named by a        *)
(* number.  JSON.stringify followed by JSON.parse and new Date() gives     *)
(* back the same id, url and millisecond timestamp, so the stored list is  *)
(* kept as the list of items.                                              *)

MAX_HISTORY_ITEMS == 50
DEDUP_WINDOW_MS == 60000

Abs(n) == IF n < 0 THEN 0 - n ELSE n

\* xs.sort((a, b) => b.timestamp - a.timestamp): the sort is stable, so an
\* item goes behind every more recent one and every equally recent one that
\* stood before it.
SortByRecency(xs) ==
    LET Before(j, i) ==
            \/ xs[j].timestamp > xs[i].timestamp
            \/ xs[j].timestamp = xs[i].timestamp /\ j < i
        place == SubSeq([i \in DOMAIN xs |->
                            1 + Cardinality({j \in DOMAIN xs : Before(j, i)})],
                        1, Len(xs))
        InOrder == \A i \in 1..(Len(xs) - 1) : xs[i].timestamp >= xs[i + 1].timestamp
    IN  IF InOrder THEN xs
        ELSE SubSeq([p \in DOMAIN xs |-> xs[CHOOSE i \in DOMAIN xs : place[i] = p]],
                    1, Len(xs))

\* HistoryManager.getHistory on a stored blob: Absent, or Arr of the items
getHistory(stored) ==
    IF stored.t = "absent" THEN << >> ELSE SortByRecency(stored.v)

\* The historyItem saveToHistory builds
HistoryItem(report, now) ==
    [id |-> now, url |-> report.url, timestamp |-> report.timestamp]

\* Mutant: the duplicate check never finds an item.
existingIndex_never(existingHistory, report) == 0

\* existingHistory.findIndex(...), counted from 1; 0 when findIndex gives -1
existingIndex(existingHistory, report) ==
    LET Matches(i) ==
            /\ existingHistory[i].url = report.url
            /\ Abs(existingHistory[i].timestamp - report.timestamp) < DEDUP_WINDOW_MS
    IN  IF \E i \in 1..Len(existingHistory) : Matches(i)
        THEN CHOOSE i \in 1..Len(existingHistory) :
                 Matches(i) /\ \A j \in 1..(i - 1) : ~Matches(j)
        ELSE 0

\* Mutant: the list is written without the size limit.
newHistory_unlimited(existingHistory, historyItem, index) ==
    IF index # 0 THEN [existingHistory EXCEPT ![index] = historyItem]
    ELSE <<historyItem>> \o existingHistory

\* The list saveToHistory writes
newHistory(existingHistory, historyItem, index) ==
    LET list == IF index # 0 THEN [existingHistory EXCEPT ![index] = historyItem]
                ELSE <<historyItem>> \o existingHistory
    IN  IF Len(list) > MAX_HISTORY_ITEMS THEN SliceTo(list, MAX_HISTORY_ITEMS) ELSE list

\* `${item.url}_${timestamp}`
UrlTimeKey(item) == <<item.url, item.timestamp>>

\* The items of an imported list that importHistory keeps
NewImportedItems(existingHistory, imported) ==
    LET existingUrls == {UrlTimeKey(existingHistory[i]) : i \in 1..Len(existingHistory)}
        IsNew(item) == UrlTimeKey(item) \notin existingUrls
    IN  SelectSeq(imported, IsNew)

\* Mutant: the merged list is written without the size limit.
mergedHistory_unlimited(existingHistory, imported) ==
    SortByRecency(existingHistory \o NewImportedItems(existingHistory, imported))

\* The list importHistory writes
mergedHistory(existingHistory, imported) ==
    SliceTo(SortByRecency(existingHistory \o NewImportedItems(existingHistory, imported)),
            MAX_HISTORY_ITEMS)

\* filter(item => item.id !== id)
WithoutId(history, id) ==
    LET Keeps(item) == item.id # id
    IN  SelectSeq(history, Keeps)

---------------------------------------------------------------------------
(* History operations in any order, on a store that earlier sessions have  *)
(* filled.                                                                 *)

MaxOps == 3

\* A store after n saves of n URLs, one every 100 seconds, each saved five
\* seconds after its analysis; the most recent first.
FilledStore(n) ==
    Arr([k \in 1..n |-> [id |-> 10000000 - k * 100000 + 5000, url |-> k,
                        timestamp |-> 10000000 - k * 100000]])

InitialStores ==
    {Absent} \cup {FilledStore(n) : n \in {1, MAX_HISTORY_ITEMS - 1, MAX_HISTORY_ITEMS}}

\* The reports handed to saveToHistory: url 1 is the URL of the most recent
\* item of a filled store, analysed at 9900000.
SaveReports ==
    { [url |-> 1,  timestamp |-> 9900000],
      [url |-> 1,  timestamp |-> 9959999],
      [url |-> 1,  timestamp |-> 9960000],
      [url |-> 61, timestamp |-> 9959999],
      [url |-> 61, timestamp |-> 1000000] }

ImportData ==
    { [t |-> "obj"],
      Arr(<<[id |-> 7, url |-> 71, timestamp |-> 10700000]>>),
      Arr(<<[id |-> 7, url |-> 71, timestamp |-> 10700000],
            [id |-> 9905000, url |-> 1, timestamp |-> 9900000],
            [id |-> 8, url |-> 72, timestamp |-> 2000000]>>) }

\* The ids a delete is asked for: no item's, the first item's, the last item's.
DeleteIds(history) ==
    {0} \cup {history[i].id : i \in {1, Len(history)} \cap DOMAIN history}

InitHistory ==
    /\ storage \in InitialStores
    /\ clock = 10000000
    /\ modalOpen = FALSE
    /\ modalHistory = << >>
    /\ lastOp = [op |-> "none"]
    /\ opCount = 0
    /\ IdleNorm /\ IdleTasks /\ IdleExport /\ IdleProvider /\ IdlePipeline /\ IdlePrompt

\* HistoryManager.saveToHistory(report); Date.now() has advanced by dt.
SaveToHistory ==
    /\ opCount < MaxOps
    /\ \E report \in SaveReports, dt \in {0, 1} :
           LET existingHistory == getHistory(storage)
               historyItem == HistoryItem(report, clock + dt)
               index == existingIndex(existingHistory, report)
           IN  /\ storage' = Arr(newHistory(existingHistory, historyItem, index))
               /\ clock' = clock + dt
               /\ lastOp' = [op |-> "save", read |-> existingHistory,
                             item |-> historyItem, index |-> index]
    /\ opCount' = opCount + 1
    /\ UNCHANGED <<modalOpen, modalHistory, normVars, taskVars, exportVars, providerVars, pipelineVars,
                   promptVars>>

\* HistoryManager.deleteFromHistory(id)
DeleteFromHistory ==
    /\ opCount < MaxOps
    /\ \E id \in DeleteIds(getHistory(storage)) :
           LET history == getHistory(storage)
               remaining == WithoutId(history, id)
           IN  /\ storage' = IF Len(remaining) = Len(history) THEN storage
                             ELSE Arr(remaining)
               /\ lastOp' = [op |-> "delete", read |-> history, id |-> id]
    /\ opCount' = opCount + 1
    /\ UNCHANGED <<clock, modalOpen, modalHistory, normVars, taskVars, exportVars, providerVars, pipelineVars,
                   promptVars>>

\* HistoryManager.clearAllHistory()
ClearAllHistory ==
    /\ opCount < MaxOps
    /\ storage' = Absent
    /\ lastOp' = [op |-> "clear"]
    /\ opCount' = opCount + 1
    /\ UNCHANGED <<clock, modalOpen, modalHistory, normVars, taskVars, exportVars, providerVars, pipelineVars,
                   promptVars>>

\* HistoryManager.importHistory(jsonData); data is JSON.parse(jsonData).
ImportHistory ==
    /\ opCount < MaxOps
    /\ \E data \in ImportData :
           LET existingHistory == getHistory(storage)
           IN  /\ storage' = IF data.t # "arr" THEN storage
                             ELSE Arr(mergedHistory(existingHistory, data.v))
               /\ lastOp' = [op |-> "import", read |-> existingHistory, data |-> data]
    /\ opCount' = opCount + 1
    /\ UNCHANGED <<clock, modalOpen, modalHistory, normVars, taskVars, exportVars, providerVars, pipelineVars,
                   promptVars>>

\* RecentModal: isOpen becomes true and the effect runs loadHistory.
OpenModal ==
    /\ opCount < MaxOps
    /\ ~modalOpen
    /\ modalOpen' = TRUE
    /\ modalHistory' = getHistory(storage)
    /\ lastOp' = [op |-> "open"]
    /\ opCount' = opCount + 1
    /\ UNCHANGED <<storage, clock, normVars, taskVars, exportVars, providerVars, pipelineVars,
                   promptVars>>

\* RecentModal: onClose.
CloseModal ==
    /\ opCount < MaxOps
    /\ modalOpen
    /\ modalOpen' = FALSE
    /\ lastOp' = [op |-> "close"]
    /\ opCount' = opCount + 1
    /\ UNCHANGED <<storage, clock, modalHistory, normVars, taskVars, exportVars, providerVars, pipelineVars,
                   promptVars>>

\* Mutant: the modal reads the stored list again before it writes.
HandleDeleteItem_fresh ==
    /\ opCount < MaxOps
    /\ modalOpen
    /\ \E id \in DeleteIds(modalHistory) \ {0} :
           /\ modalHistory' = WithoutId(getHistory(storage), id)
           /\ storage' = Arr(WithoutId(getHistory(storage), id))
           /\ lastOp' = [op |-> "modalDelete", read |-> modalHistory, id |-> id,
                         stored |-> getHistory(storage)]
    /\ opCount' = opCount + 1
    /\ UNCHANGED <<clock, modalOpen, normVars, taskVars, exportVars, providerVars, pipelineVars,
                   promptVars>>

\* RecentModal.handleDeleteItem(id) on the first or the last item shown; the
\* list it filters is the React state loaded when the modal opened.
HandleDeleteItem ==
    /\ opCount < MaxOps
    /\ modalOpen
    /\ \E id \in DeleteIds(modalHistory) \ {0} :
           /\ modalHistory' = WithoutId(modalHistory, id)
           /\ storage' = Arr(WithoutId(modalHistory, id))
           /\ lastOp' = [op |-> "modalDelete", read |-> modalHistory, id |-> id,
                         stored |-> getHistory(storage)]
    /\ opCount' = opCount + 1
    /\ UNCHANGED <<clock, modalOpen, normVars, taskVars, exportVars, providerVars, pipelineVars,
                   promptVars>>

\* RecentModal.handleClearAll()
HandleClearAll ==
    /\ opCount < MaxOps
    /\ modalOpen
    /\ modalHistory' = << >>
    /\ storage' = Absent
    /\ lastOp' = [op |-> "modalClear"]
    /\ opCount' = opCount + 1
    /\ UNCHANGED <<clock, modalOpen, normVars, taskVars, exportVars, providerVars, pipelineVars,
                   promptVars>>

NextHistory ==
    \/ SaveToHistory
    \/ DeleteFromHistory
    \/ ClearAllHistory
    \/ ImportHistory
    \/ OpenModal
    \/ CloseModal
    \/ HandleDeleteItem
    \/ HandleClearAll

SpecHistory == InitHistory /\ [][NextHistory]_vars

---------------------------------------------------------------------------
(* Properties of the normalization pipeline, under SpecNorm.               *)

HasReport == result.t = "report"

\* The category ids of the report, in order.
ReportIds == [i \in 1..Len(result.categories) |-> result.categories[i].id]

\* The reply holds an entry for the category id.
HasRawEntry(id) ==
    /\ aiAnalysis.categories.t = "arr"
    /\ \E i \in 1..Len(aiAnalysis.categories.v) :
           LET e == aiAnalysis.categories.v[i]
           IN  e.t = "obj" /\ e.id.t = "str" /\ e.id.v = id

\* The reply's entry for the id that the pipeline reads: the first one.
RawEntry(id) ==
    LET cats == aiAnalysis.categories.v
        k == CHOOSE i \in 1..Len(cats) :
                 /\ cats[i].t = "obj" /\ cats[i].id.t = "str" /\ cats[i].id.v = id
                 /\ \A j \in 1..(i - 1) :
                        ~(cats[j].t = "obj" /\ cats[j].id.t = "str" /\ cats[j].id.v = id)
    IN  cats[k]

MobileExcluded(id) == id = MOBILE_ID /\ ~settings.includeMobile

\* C1: a catalog category that has no entry in the reply's `categories`
\* (absent `categories` included) comes out as the fallback table's entry for
\* its id: score, issues, recommendations and details, and the entry's other
\* fields too, are the table's values.
\* The mobile category, when settings exclude it, is not in the report at all.
C1_MissingCategoryIsFallback ==
    HasReport =>
        \A id \in CategoryIds :
            (~HasRawEntry(id) /\ ~MobileExcluded(id)) =>
                /\ \E i \in 1..Len(result.categories) : result.categories[i].id = id
                /\ \A i \in 1..Len(result.categories) :
                       result.categories[i].id = id =>
                           /\ result.categories[i].score = Num(krugRecommendations[id].score)
                           /\ result.categories[i].assessment
                                  = Str(krugRecommendations[id].assessment)
                           /\ result.categories[i].strengths
                                  = Arr(krugRecommendations[id].strengths)
                           /\ result.categories[i].implementationTasks
                                  = krugRecommendations[id].implementationTasks
                           /\ result.categories[i].issues = krugRecommendations[id].issues
                           /\ result.categories[i].recommendations
                                  = Arr(krugRecommendations[id].recommendations)
                           /\ result.categories[i].details
                                  = Str(krugRecommendations[id].details)

\* A report of a reply that has an entry for navigation, with data of its own,
\* and none for forms.
C1_Witness ==
    /\ HasReport
    /\ HasRawEntry("navigation") /\ ~HasRawEntry("forms")
    /\ Truthy(RawEntry("navigation").details)
    /\ \E i \in 1..Len(result.categories) : result.categories[i].id = "forms"

\* C2: a category whose reply entry has a numeric score outside [0,100] gets
\* the score 0 when the raw score is below 0 and 100 when it is above 100.
C2_ScoreClamped ==
    HasReport =>
        \A i \in 1..Len(result.categories) :
            LET id == result.categories[i].id
            IN  (HasRawEntry(id) /\ RawEntry(id).score.t = "num") =>
                    /\ RawEntry(id).score.v < 0 => result.categories[i].score = Num(0)
                    /\ RawEntry(id).score.v > 100 => result.categories[i].score = Num(100)

\* A report with a category scored -10 and another scored 150 in the reply.
C2_Witness ==
    /\ HasReport
    /\ \E i, j \in 1..Len(result.categories) :
           /\ HasRawEntry(ReportIds[i]) /\ RawEntry(ReportIds[i]).score = Num(-10)
           /\ HasRawEntry(ReportIds[j]) /\ RawEntry(ReportIds[j]).score = Num(150)
           /\ result.categories[i].score = Num(0)
           /\ result.categories[j].score = Num(100)

ReportWeights == [i \in 1..Len(result.categories) |-> result.categories[i].weight]

\* Defined when AllScoresNumeric.
ReportWeightedScores ==
    [i \in 1..Len(result.categories) |->
        result.categories[i].score.v * result.categories[i].weight]

AllScoresNumeric ==
    \A i \in 1..Len(result.categories) : result.categories[i].score.t = "num"

\* r is the quotient n / d rounded to the nearest integer, halves upwards.
IsRounded(r, n, d) == 2 * n - d < 2 * r * d /\ 2 * r * d <= 2 * n + d

\* C3: overallScore is the rounded quotient of the sum of score * weight by the
\* sum of the weights, both sums over exactly the categories of the report;
\* scores 80 and 60 with weights 20 and 80 give 64.
C3_OverallScoreIsWeightedMean ==
    /\ calculateOverallScore(<<[score |-> Num(80), weight |-> 20],
                               [score |-> Num(60), weight |-> 80]>>) = Num(64)
    /\ (HasReport /\ AllScoresNumeric) =>
           /\ result.overallScore.t = "num"
           /\ IsRounded(result.overallScore.v, SumSeq(ReportWeightedScores),
                        SumSeq(ReportWeights))
    /\ (HasReport /\ ~AllScoresNumeric) => result.overallScore = NaN

\* A report without the mobile category whose reply scored a category itself,
\* and whose mean is not an integer before rounding.
C3_Witness ==
    /\ HasReport /\ AllScoresNumeric
    /\ ~settings.includeMobile
    /\ HasRawEntry("navigation") /\ RawEntry("navigation").score = Num(40)
    /\ SumSeq(ReportWeightedScores) % SumSeq(ReportWeights) # 0

\* C4: the report holds the mobile category exactly when settings.includeMobile
\* is true; when it is false the report's categories are the catalog's without
\* that one, whatever the reply held, their weights sum to 90, and 90 is the
\* denominator of overallScore.
C4_MobileIffIncluded ==
    HasReport =>
        /\ (\E i \in 1..Len(ReportIds) : ReportIds[i] = MOBILE_ID) <=> settings.includeMobile
        /\ settings.includeMobile =>
               /\ ReportIds = [i \in 1..Len(USABILITY_CATEGORIES) |-> USABILITY_CATEGORIES[i].id]
               /\ SumSeq(ReportWeights) = 100
        /\ ~settings.includeMobile =>
               /\ ReportIds = <<"navigation", "content_hierarchy", "page_names", "search",
                                "forms", "page_loading", "accessibility", "error_handling">>
               /\ SumSeq(ReportWeights) = 90
               /\ AllScoresNumeric =>
                      IsRounded(result.overallScore.v, SumSeq(ReportWeightedScores), 90)

\* A report made with includeMobile false from a reply that has a mobile entry.
C4_Witness ==
    /\ HasReport
    /\ ~settings.includeMobile
    /\ HasRawEntry(MOBILE_ID)
    /\ Len(result.categories) = 8

\* The raw `type` of the k-th issue of an entry, Undef when the issue is no object.
RawIssueType(entry, k) ==
    IF entry.issues.v[k].t = "obj" THEN entry.issues.v[k].type ELSE Undef

\* C9: for a category with an entry in the reply, each issue keeps the raw
\* `type` when that is high, medium or low and has type medium otherwise; every
\* issue of a report has one of the three levels.
C9_SeverityCoerced ==
    HasReport =>
        \A i \in 1..Len(result.categories) :
            LET cat == result.categories[i]
            IN  /\ \A k \in 1..Len(cat.issues) : cat.issues[k].type \in SeverityLevels
                /\ (HasRawEntry(cat.id) /\ Truthy(RawEntry(cat.id).issues)) =>
                       /\ Len(cat.issues) = Len(RawEntry(cat.id).issues.v)
                       /\ \A k \in 1..Len(cat.issues) :
                              LET ty == RawIssueType(RawEntry(cat.id), k)
                              IN  cat.issues[k].type =
                                      IF ty \in {Str("high"), Str("medium"), Str("low")}
                                      THEN ty.v ELSE "medium"

\* A report of a reply with an issue of type "urgent" after one of type "high".
C9_Witness ==
    /\ HasReport
    /\ \E i \in 1..Len(result.categories) :
           LET cat == result.categories[i]
           IN  /\ HasRawEntry(cat.id) /\ Truthy(RawEntry(cat.id).issues)
               /\ Len(cat.issues) = 2
               /\ RawIssueType(RawEntry(cat.id), 1) = Str("high")
               /\ RawIssueType(RawEntry(cat.id), 2) = Str("urgent")
               /\ cat.issues[1].type = "high" /\ cat.issues[2].type = "medium"

---------------------------------------------------------------------------
(* generateContextualTasks on its own: one argument list, run repeatedly.  *)

MaxTaskIssues == 4
MaxRuns == 2

D_Indicators == Text(<<"i","n","d","i","c","a","t","o","r","s">>)
D_Primary    == Text(<<"P","r","i","m","a","r","y"," ","l","o","c","a","t","i","o","n">>)

TaskDescriptions == {D_Breadcrumb, D_Location, D_Indicators, D_Primary}

RECURSIVE TaskIssueSeqs(_)
TaskIssueSeqs(n) ==
    IF n = 0 THEN {<< >>}
    ELSE {Append(s, [type |-> "medium", description |-> d]) :
             s \in TaskIssueSeqs(n - 1), d \in TaskDescriptions}

TaskInputs ==
    [ categoryId : {"navigation", "search", "bogus"},
      issues : UNION {TaskIssueSeqs(n) : n \in 0..MaxTaskIssues},
      aiCategory : {[score |-> s] : s \in {Undef, Num(40), Num(80)}} ]

InitTasks ==
    /\ taskInput \in TaskInputs
    /\ taskOutput = << >>
    /\ IdleNorm /\ IdleHistory /\ IdleExport /\ IdleProvider /\ IdlePipeline /\ IdlePrompt

RunTasks ==
    /\ Len(taskOutput) < MaxRuns
    /\ taskOutput' = Append(taskOutput,
                            generateContextualTasks(taskInput.categoryId, taskInput.issues,
                                                    taskInput.aiCategory))
    /\ UNCHANGED <<taskInput, normVars, historyVars, exportVars, providerVars, pipelineVars,
                   promptVars>>

NextTasks == RunTasks

SpecTasks == InitTasks /\ [][NextTasks]_vars

---------------------------------------------------------------------------
(* The todo export: generateTodoTasks and generateJsonTodos of              *)
(* app/api/export-todos/route.ts, and the JSON body the route answers with. *)

Bool(b)   == [t |-> "bool", v |-> b]
Fmt(parts) == [t |-> "fmt", v |-> parts]

RECURSIVE SkipSpaces(_)
SkipSpaces(s) ==
    IF s # << >> /\ Head(s) = " " THEN SkipSpaces(Tail(s)) ELSE s

\* task.replace(/^\[\s*\]\s*/, '')
RemoveCheckboxPrefix(task) ==
    IF task = << >> \/ Head(task) # "[" THEN task
    ELSE LET inner == SkipSpaces(Tail(task))
         IN  IF inner # << >> /\ Head(inner) = "]" THEN SkipSpaces(Tail(inner))
             ELSE task

IncludesAny(s, words) == \E w \in words : includes(s, w)

\* baseHours of estimateContextualTaskTime, in half hours
BaseHalfHours(taskLower) ==
    IF IncludesAny(taskLower, {<<"t","e","s","t">>, <<"a","u","d","i","t">>, <<"r","e","v","i","e","w">>}) THEN 3
    ELSE IF IncludesAny(taskLower, {<<"i","m","p","l","e","m","e","n","t">>, <<"c","r","e","a","t","e">>, <<"d","e","s","i","g","n">>}) THEN 12
    ELSE IF IncludesAny(taskLower, {<<"o","p","t","i","m","i","z","e">>, <<"i","m","p","r","o","v","e">>, <<"e","n","h","a","n","c","e">>}) THEN 6
    ELSE 4

\* `${adjustedHours}-${maxHours} hours`: baseHours * (1 + min(issueCount / 2, 2) * 0.5)
\* is BaseHalfHours * (4 + min(issueCount, 4)) / 8.
estimateContextualTaskTime(task, issueCount) ==
    LET taskLower == toLowerCase(task)
        quarters == 4 + (IF issueCount < 4 THEN issueCount ELSE 4)
        adjustedHours == MathRoundDiv(BaseHalfHours(taskLower) * quarters, 8)
        maxHours == MathRoundDiv(3 * adjustedHours, 2)
    IN  Fmt(<<adjustedHours, "-", maxHours, " hours">>)

estimateTaskTime(task) == estimateContextualTaskTime(task, 1)

IssueCount(category) ==
    IF category.issues.t = "arr" THEN Len(category.issues.v) ELSE 0

HighIssues(category) ==
    IF category.issues.t = "arr"
    THEN LET IsHighIssue(issue) == issue.type = "high"
         IN  SelectSeq(category.issues.v, IsHighIssue)
    ELSE << >>

getContextualCategoryPriority(category) ==
    IF Len(HighIssues(category)) > 0
          \/ (IssueCount(category) >= 2 /\ category.weight >= 12) THEN "high"
    ELSE IF IssueCount(category) >= 1 /\ category.weight >= 8 THEN "medium"
    ELSE "low"

getTaskPriority(category, task) == getContextualCategoryPriority(category)

coreKeywords == {<<"n","a","v","i","g","a","t","i","o","n">>, <<"h","i","e","r","a","r","c","h","y">>, <<"o","b","v","i","o","u","s">>, <<"s","e","l","f","-","e","v","i","d","e","n","t">>, <<"m","i","n","d","l","e","s","s">>}

\* rec.action and rec.userTask are strings here
getRecommendationPriority(category, rec) ==
    IF \E keyword \in coreKeywords :
           \/ includes(toLowerCase(rec.action.v), keyword)
           \/ includes(toLowerCase(rec.userTask.v), keyword)
    THEN "high"
    ELSE IF category.weight >= 10 THEN "medium"
    ELSE "low"

StrengthTasks(analysisResult) ==
    LET assessment == analysisResult.overallAssessment
    IN  IF assessment.t = "obj" /\ HasPositiveLength(assessment.strengths)
        THEN << [title |-> Str("Maintain Current Strengths"),
                 description |-> Fmt(<<"Your website has ", Len(assessment.strengths.v),
                                       " key strengths that should be preserved during improvements">>),
                 category |-> Str("Overall Assessment"),
                 priority |-> Str("medium"),
                 krugReference |-> Str("Steve Krug: \"If it ain't broke, don't fix it\""),
                 userAction |-> Fmt(<<"Continue to maintain: ", SliceTo(assessment.strengths.v, 3),
                                      IF Len(assessment.strengths.v) > 3 THEN ", and others" ELSE "">>),
                 estimatedTime |-> Str("30 minutes review"),
                 completed |-> Bool(FALSE)] >>
        ELSE << >>

\* Whether some element of a sequence of results is a thrown exception
AnyThrew(results) == \E i \in DOMAIN results : results[i].t = "threw"

\* The results' lists in one, or the exception one of them threw
Collect(results) ==
    IF AnyThrew(results) THEN Threw
    ELSE Arr(Flatten([i \in DOMAIN results |-> results[i].v]))

ImplementationTask(category, task) ==
    IF task.t # "text" THEN Threw
    ELSE LET cleanTask == RemoveCheckboxPrefix(task.v)
         IN  Arr(<< [title |-> Text(cleanTask),
                     description |-> Fmt(<<"Contextual implementation task for ", category.name,
                                           " - addressing ", IssueCount(category), " issue(s)">>),
                     category |-> category.name,
                     priority |-> Str(getContextualCategoryPriority(category)),
                     krugReference |-> category.description,
                     userAction |-> Text(cleanTask),
                     estimatedTime |-> estimateContextualTaskTime(cleanTask, IssueCount(category)),
                     completed |-> Bool(FALSE)] >>)

ImplementationTasks(category) ==
    IF HasPositiveLength(category.implementationTasks) /\ IssueCount(category) > 0
    THEN Collect([i \in DOMAIN category.implementationTasks.v |->
                     ImplementationTask(category, category.implementationTasks.v[i])])
    ELSE Arr(<< >>)

RecommendationTask(category, rec) ==
    CASE rec.t = "null" -> Threw
      [] rec.t = "obj" /\ rec.userTask.t # "undef" ->
            IF rec.action.t # "text" \/ rec.userTask.t # "text" THEN Threw
            ELSE Arr(<< [title |-> rec.action,
                         description |-> rec.userTask,
                         category |-> category.name,
                         priority |-> Str(getRecommendationPriority(category, rec)),
                         krugReference |-> rec.krugReference,
                         userAction |-> rec.userTask,
                         estimatedTime |-> estimateTaskTime(rec.userTask.v),
                         completed |-> Bool(FALSE)] >>)
      [] rec.t = "text" ->
            Arr(<< [title |-> rec,
                    description |-> Fmt(<<"Recommendation for ", category.name>>),
                    category |-> category.name,
                    priority |-> Str(getTaskPriority(category, rec)),
                    krugReference |-> Undef,
                    userAction |-> rec,
                    estimatedTime |-> estimateTaskTime(rec.v),
                    completed |-> Bool(FALSE)] >>)
      [] OTHER -> Arr(<< >>)

RecommendationTasks(category) ==
    IF HasPositiveLength(category.recommendations)
    THEN Collect([i \in DOMAIN category.recommendations.v |->
                     RecommendationTask(category, category.recommendations.v[i])])
    ELSE Arr(<< >>)

HighIssueTask(category, issue) ==
    [title |-> Fmt(<<"Fix: ", issue.description>>),
     description |-> Fmt(<<"High priority issue in ", category.name, ": ", issue.description>>),
     category |-> category.name,
     priority |-> Str("high"),
     krugReference |-> OrElse(issue.krugPrinciple, category.description),
     userAction |-> Fmt(<<"Investigate and fix: ", issue.description>>),
     estimatedTime |-> Str("2-4 hours"),
     completed |-> Bool(FALSE)]

HighIssueTasks(category) ==
    Arr([i \in DOMAIN HighIssues(category) |->
            HighIssueTask(category, HighIssues(category)[i])])

\* The tasks one pass of the categories.forEach callback pushes
CategoryTasks(category) ==
    Collect(<<ImplementationTasks(category), RecommendationTasks(category),
              HighIssueTasks(category)>>)

\* generateTodoTasks(analysisResult): Arr of the tasks, or Threw
generateTodoTasks(analysisResult) ==
    IF analysisResult.categories.t # "arr" THEN Threw
    ELSE LET pushed == Collect(<<Arr(StrengthTasks(analysisResult))>> \o
                           [i \in DOMAIN analysisResult.categories.v |->
                               CategoryTasks(analysisResult.categories.v[i])])
         IN  IF pushed.t = "threw" THEN Threw
             ELSE Arr([i \in DOMAIN pushed.v |->
                          [id |-> Fmt(<<"task-", i>>)] @@ pushed.v[i]])

\* The exportTask generateJsonTodos makes of a task
ExportTask(task, options) ==
    LET base == [id |-> task.id, title |-> task.title, description |-> task.description,
                 category |-> task.category, userAction |-> task.userAction,
                 estimatedTime |-> task.estimatedTime, completed |-> task.completed]
        withPriority == IF options.includePriority
                        THEN base @@ [priority |-> task.priority] ELSE base
    IN  IF options.includeReferences /\ Truthy(task.krugReference)
        THEN withPriority @@ [krugReference |-> task.krugReference]
        ELSE withPriority

\* The property key a value used as one becomes
PropertyKey(x) ==
    CASE x.t = "undef" -> "undefined"
      [] x.t = "null"  -> "null"
      [] OTHER         -> x.v

\* What a plain object inherits from Object.prototype
ObjectPrototypeKeys ==
    {"constructor", "toString", "toLocaleString", "valueOf", "hasOwnProperty",
     "isPrototypeOf", "propertyIsEnumerable", "__proto__", "__defineGetter__",
     "__defineSetter__", "__lookupGetter__", "__lookupSetter__"}

\* Mutant: the group is assigned the task instead of being pushed onto.
AddToGroup_overwrite(grouped, task) ==
    LET key == PropertyKey(task.category)
        own == grouped.members
    IN  IF \E g \in DOMAIN own : own[g].key = key
        THEN [grouped EXCEPT !.members =
                 [g \in DOMAIN own |->
                     IF own[g].key = key THEN [key |-> key, tasks |-> <<task>>]
                     ELSE own[g]]]
        ELSE [grouped EXCEPT !.members = Append(own, [key |-> key, tasks |-> <<task>>])]

\* One pass of the filteredTasks.forEach callback on `grouped`, whose members
\* are the object's own properties in the order they were added; Threw when
\* grouped[task.category] is an inherited member, which has no push.
AddToGroup(grouped, task) ==
    LET key == PropertyKey(task.category)
        own == grouped.members
    IN  IF \E g \in DOMAIN own : own[g].key = key
        THEN [grouped EXCEPT !.members =
                 [g \in DOMAIN own |->
                     IF own[g].key = key
                     THEN [key |-> key, tasks |-> Append(own[g].tasks, task)]
                     ELSE own[g]]]
        ELSE IF key \in ObjectPrototypeKeys THEN Threw
        ELSE [grouped EXCEPT !.members = Append(own, [key |-> key, tasks |-> <<task>>])]

RECURSIVE GroupByCategory(_)
GroupByCategory(tasks) ==
    IF tasks = << >> THEN [t |-> "obj", members |-> << >>]
    ELSE LET grouped == GroupByCategory(SubSeq(tasks, 1, Len(tasks) - 1))
         IN  IF grouped.t = "threw" THEN Threw
             ELSE AddToGroup(grouped, tasks[Len(tasks)])

\* generateJsonTodos(tasks, options): the array, the grouped object, or Threw
generateJsonTodos(tasks, options) ==
    LET filteredTasks == [i \in DOMAIN tasks |-> ExportTask(tasks[i], options)]
    IN  IF options.groupByCategory THEN GroupByCategory(filteredTasks)
        ELSE Arr(filteredTasks)

\* formatTodoExport for the formats the requests here ask for: 'json', and one
\* the switch does not know.
formatTodoExport(tasks, options) ==
    IF options.format = "json" THEN generateJsonTodos(tasks, options) ELSE Threw

\* The body of a JSON text as its tokens: a property name stands for `"name":`
\* and the commas are left out.
Tok(k)    == [k |-> k]
Key(name) == [k |-> "key", v |-> name]
Lit(x)    == [k |-> "lit", v |-> x]

TaskKeys ==
    <<"id", "title", "description", "category", "userAction", "estimatedTime",
      "completed", "priority", "krugReference">>

\* JSON.stringify of an object of scalars: a property whose value is undefined
\* is left out.
StringifyTask(task) ==
    <<Tok("{")>>
    \o Flatten([i \in DOMAIN TaskKeys |->
                   IF TaskKeys[i] \in DOMAIN task /\ task[TaskKeys[i]].t # "undef"
                   THEN <<Key(TaskKeys[i]), Lit(task[TaskKeys[i]])>>
                   ELSE << >>])
    \o <<Tok("}")>>

StringifyTasks(tasks) ==
    <<Tok("[")>> \o Flatten([i \in DOMAIN tasks |-> StringifyTask(tasks[i])]) \o <<Tok("]")>>

\* JSON.stringify of what generateJsonTodos returns
StringifyExport(exportData) ==
    IF exportData.t = "arr" THEN StringifyTasks(exportData.v)
    ELSE <<Tok("{")>>
         \o Flatten([g \in DOMAIN exportData.members |->
                        <<Key(exportData.members[g].key)>>
                        \o StringifyTasks(exportData.members[g].tasks)])
         \o <<Tok("}")>>

\* POST of app/api/export-todos/route.ts
ExportTodos(request) ==
    IF ~Truthy(request.analysisResult)
    THEN [t |-> "response", status |-> 400, body |-> <<Tok("{"), Key("success"), Lit(Bool(FALSE)),
                                     Key("error"), Lit(Str("Analysis result is required")),
                                     Tok("}")>>]
    ELSE LET todoTasks == generateTodoTasks(request.analysisResult)
             exportData == formatTodoExport(todoTasks.v, request.exportOptions)
         IN  IF todoTasks.t = "threw" \/ exportData.t = "threw"
             THEN [t |-> "response", status |-> 500, body |-> <<Tok("{"), Key("success"), Lit(Bool(FALSE)),
                                              Key("error"), Lit(Str("Failed to export todos")),
                                              Tok("}")>>]
             ELSE [t |-> "response", status |-> 200, body |-> <<Tok("{"), Key("success"), Lit(Bool(TRUE)),
                                              Key("data")>>
                                            \o StringifyExport(exportData)
                                            \o <<Tok("}")>>]

---------------------------------------------------------------------------
(* The export requests.                                                    *)

MaxExportCategories == 2

HighIssue   == [type |-> "high", description |-> Str("menu hidden"),
                krugPrinciple |-> Str("Make it obvious")]
BareHighIssue == [type |-> "high", description |-> Str("no search"),
                  krugPrinciple |-> Undef]
MediumIssue == [type |-> "medium", description |-> Str("labels vague"),
                krugPrinciple |-> Undef]

ObjectRecommendation ==
    [t |-> "obj", action |-> Text(<<"I","m","p","r","o","v","e"," ","n","a","v","i","g","a","t","i","o","n">>),
     userTask |-> Text(<<"C","r","e","a","t","e"," ","m","e","n","u">>), krugReference |-> Str("Chapter 6")]
PlainRecommendation ==
    [t |-> "obj", action |-> Text(<<"U","p","d","a","t","e"," ","l","a","b","e","l","s">>),
     userTask |-> Text(<<"R","e","v","i","e","w"," ","l","a","b","e","l","s">>), krugReference |-> Undef]
TaskLessRecommendation ==
    [t |-> "obj", action |-> Text(<<"U","p","d","a","t","e"," ","l","a","b","e","l","s">>),
     userTask |-> Undef, krugReference |-> Undef]

ExportCategories ==
    { [name |-> Str("Navigation Clarity"), weight |-> 20, description |-> Str("Krug on navigation"),
       issues |-> Arr(<<HighIssue, MediumIssue>>),
       implementationTasks |-> Arr(<<Text(<<"["," ","]"," ","A","d","d"," ","b","r","e","a","d","c","r","u","m","b","s">>), Text(<<"T","e","s","t"," ","f","o","r","m","s">>)>>),
       recommendations |-> Arr(<<ObjectRecommendation, Text(<<"F","i","x"," ","l","i","n","k","s">>)>>)],
      [name |-> Str("Navigation Clarity"), weight |-> 20, description |-> Str("Krug on navigation"),
       issues |-> Arr(<<MediumIssue>>),
       implementationTasks |-> Undef,
       recommendations |-> Arr(<<PlainRecommendation, TaskLessRecommendation>>)],
      [name |-> Str("Error Handling"), weight |-> 2, description |-> Str("Krug on errors"),
       issues |-> Arr(<< >>),
       implementationTasks |-> Arr(<<Text(<<"A","u","d","i","t"," ","e","r","r","o","r","s">>)>>),
       recommendations |-> Arr(<<Num(7)>>)],
      [name |-> Str("constructor"), weight |-> 10, description |-> Str(""),
       issues |-> Arr(<<BareHighIssue>>),
       implementationTasks |-> Undef,
       recommendations |-> Undef],
      [name |-> Undef, weight |-> 8, description |-> Undef,
       issues |-> Arr(<<BareHighIssue>>),
       implementationTasks |-> Arr(<<Text(<<"[","]"," ","D","e","s","i","g","n"," ","s","e","a","r","c","h">>)>>),
       recommendations |-> Undef],
      [name |-> Str("Content Quality"), weight |-> 10, description |-> Str("Krug on words"),
       issues |-> Undef,
       implementationTasks |-> Undef,
       recommendations |-> Arr(<<Null>>)] }

ExportCategorySeqs ==
    UNION {[1..n -> ExportCategories] : n \in 0..MaxExportCategories}

ExportAssessments ==
    {Undef, [t |-> "obj", strengths |-> Arr(<<Str("Clear headings"), Str("Fast pages")>>)]}

ExportReports ==
    {Null} \cup
    {[t |-> "obj", overallAssessment |-> a, categories |-> Arr(cs)] :
        a \in ExportAssessments, cs \in ExportCategorySeqs}

ExportOptions ==
    [format : {"json", "xml"}, includePriority : BOOLEAN,
     includeReferences : BOOLEAN, groupByCategory : BOOLEAN]

ExportRequests ==
    [analysisResult : ExportReports, exportOptions : ExportOptions]

InitExport ==
    /\ exportInput \in ExportRequests
    /\ exportOutput = NoResult
    /\ IdleNorm /\ IdleTasks /\ IdleHistory /\ IdleProvider /\ IdlePipeline /\ IdlePrompt

\* The route answers the request.
Export ==
    /\ exportOutput = NoResult
    /\ exportOutput' = ExportTodos(exportInput)
    /\ UNCHANGED <<exportInput, normVars, taskVars, historyVars, providerVars,
                   pipelineVars,
                   promptVars>>

NextExport == Export

SpecExport == InitExport /\ [][NextExport]_vars

---------------------------------------------------------------------------
(* Properties of the todo export, under SpecExport.                        *)

\* How many brackets are open at token i of a JSON body; in the body of an
\* answer {success, data} the value of `data` starts at token 5.
Depth(body, i) ==
    Cardinality({j \in 1..(i - 1) : body[j].k \in {"{", "["}})
    - Cardinality({j \in 1..(i - 1) : body[j].k \in {"}", "]"}})

\* The objects that are elements of the array `data` of the parsed body
ArrayElements(body) ==
    {i \in DOMAIN body : body[i].k = "{" /\ Depth(body, i) = 2 /\ body[5].k = "["}

\* The objects that are elements of an array that is a member of the object
\* `data` of the parsed body
GroupElements(body) ==
    {i \in DOMAIN body : body[i].k = "{" /\ Depth(body, i) = 3 /\ body[5].k = "{"}

Exported == exportOutput.t = "response" /\ exportOutput.status = 200

\* C8: the JSON todo export, parsed back, holds as many task objects as
\* generateTodoTasks returns for the report: the length of the array when the
\* export is not grouped, the sum of the lengths of the groups when it is.
C8_JsonExportKeepsTaskCount ==
    Exported =>
        LET tasks == generateTodoTasks(exportInput.analysisResult)
            body  == exportOutput.body
        IN  /\ tasks.t = "arr"
            /\ IF exportInput.exportOptions.groupByCategory
               THEN Cardinality(GroupElements(body)) = Len(tasks.v)
               ELSE Cardinality(ArrayElements(body)) = Len(tasks.v)

\* A grouped export of a report with two categories of one name and the
\* strengths task: seven tasks in two groups.
C8_Witness ==
    /\ Exported
    /\ exportInput.exportOptions.groupByCategory
    /\ Cardinality(GroupElements(exportOutput.body)) = 7
    /\ Cardinality({i \in DOMAIN exportOutput.body :
                       exportOutput.body[i].k = "[" /\ Depth(exportOutput.body, i) = 2}) = 2

---------------------------------------------------------------------------
(* Properties of the history store, under SpecHistory.                     *)

Items(history) == {history[i] : i \in DOMAIN history}

\* The last operation was a saveToHistory
Saved == lastOp.op = "save"

\* Item i of the list the save read has the saved report's URL and a
\* timestamp less than 60 seconds from the report's.
SameUrlWithinWindow(i) ==
    /\ lastOp.read[i].url = lastOp.item.url
    /\ lastOp.read[i].timestamp - lastOp.item.timestamp < 60000
    /\ lastOp.item.timestamp - lastOp.read[i].timestamp < 60000

\* C5: a save of a report that has the URL of a stored entry and a timestamp
\* within 60 seconds of that entry's puts the new item in the place of such an
\* entry and leaves every other entry and the number of entries as they were;
\* so a second save of the same URL within 60 seconds into a history that
\* held only the first save leaves exactly one entry.
C5_SaveWithinWindowReplaces ==
    (Saved /\ \E i \in DOMAIN lastOp.read : SameUrlWithinWindow(i)) =>
        /\ storage.t = "arr"
        /\ Len(storage.v) = Len(lastOp.read)
        /\ \E i \in DOMAIN lastOp.read :
               /\ SameUrlWithinWindow(i)
               /\ storage.v = [lastOp.read EXCEPT ![i] = lastOp.item]

\* Two saves of the same URL, 59.999 seconds apart, into an empty history.
C5_Witness ==
    /\ Saved
    /\ opCount = 2
    /\ Len(lastOp.read) = 1
    /\ lastOp.read[1].id >= 10000000
    /\ lastOp.read[1].timestamp # lastOp.item.timestamp
    /\ SameUrlWithinWindow(1)
    /\ storage = Arr(<<lastOp.item>>)

\* The save added an item to a full list.
SavedOverLimit ==
    /\ Saved
    /\ lastOp.index = 0
    /\ Len(lastOp.read) = MAX_HISTORY_ITEMS

\* C6: when a save would leave more than 50 entries, exactly 50 stay and the
\* entry that is dropped has the oldest timestamp among the stored entries
\* and the new one.
C6_DroppedEntryIsOldest ==
    SavedOverLimit =>
        /\ storage.t = "arr"
        /\ Len(storage.v) = MAX_HISTORY_ITEMS
        /\ \A dropped \in (Items(lastOp.read) \cup {lastOp.item}) \ Items(storage.v) :
               \A other \in Items(lastOp.read) \cup {lastOp.item} :
                   dropped.timestamp <= other.timestamp

\* C7: the persisted history list never holds more than 50 entries.
C7_AtMostFiftyEntries ==
    storage.t = "arr" => Len(storage.v) <= MAX_HISTORY_ITEMS

\* A save or an import has put a new item into a list that was full.
C7_Witness ==
    /\ lastOp.op \in {"save", "import"}
    /\ Len(lastOp.read) = MAX_HISTORY_ITEMS
    /\ storage.t = "arr"
    /\ Len(storage.v) = MAX_HISTORY_ITEMS
    /\ Items(storage.v) \ Items(lastOp.read) # {}

---------------------------------------------------------------------------
(* Totality of the normalization pipeline, under SpecNorm.                 *)

\* The engine has a key, so analyzeWebsite reaches processAnalysisResult.
PipelineRan == result # NoResult /\ settings.aiKey # ""

\* C11: the normalization pipeline (processAnalysisResult, the score and the
\* summary) never raises on a reply that is a JSON object: whatever the shape
\* of categories, of an entry, of issues, of an issue or of its description,
\* it returns a report.
C11_PipelineNeverRaises == PipelineRan => result.t = "report"

---------------------------------------------------------------------------
(* The provider adapter of AIAnalysisEngine: getAIAnalysis,                *)
(* getClaudeAnalysis and getOpenAIAnalysis.  A call is followed request by *)
(* request: the code waits (await fetch) for the answer to one request     *)
(* before it does anything else.  Error messages and reply texts are       *)
(* sequences of characters, so that the includes() tests of the code are   *)
(* computed on the message the code builds.                                *)
(*                                                                         *)
(* A reply text is written over four characters: "{" and "}" are braces,   *)
(* "n" stands for a member with a scalar value together with its           *)
(* separators, "x" for any text that is not JSON.                          *)

MaxTextLen == 3

\* The models of getClaudeAnalysis, in the order the loop tries them.
claudeModels ==
    << <<"c","l","a","u","d","e","-","3","-","5","-","s","o","n","n","e",
         "t","-","2","0","2","4","1","0","2","2">>,
       <<"c","l","a","u","d","e","-","3","-","5","-","s","o","n","n","e",
         "t","-","2","0","2","4","0","6","2","0">>,
       <<"c","l","a","u","d","e","-","3","-","s","o","n","n","e","t","-",
         "2","0","2","4","0","2","2","9">>,
       <<"c","l","a","u","d","e","-","3","-","h","a","i","k","u","-","2",
         "0","2","4","0","3","0","7">> >>

\* `${response.status}` of the statuses the provider answers with
StatusDigits ==
    (404 :> <<"4","0","4">>) @@ (500 :> <<"5","0","0">>) @@ (429 :> <<"4","2","9">>)

\* new Error(message), thrown
ErrorOf(message) == [t |-> "threw", message |-> message]

\* content.match(/\{[\s\S]*\}/): the match runs from the first "{" to the
\* last "}" after it ([\s\S]* is greedy); Null when there is none.
jsonMatch(content) ==
    LET opens == {i \in 1..Len(content) : content[i] = "{"}
        first == CHOOSE i \in opens : \A k \in opens : i <= k
        later == {j \in 1..Len(content) : content[j] = "}" /\ j > first}
        last  == CHOOSE j \in later : \A k \in later : k <= j
    IN  IF opens = {} \/ later = {} THEN Null
        ELSE Text(SubSeq(content, first, last))

\* Number of "{" minus number of "}" in the first k characters of s
RECURSIVE BraceDepth(_, _)
BraceDepth(s, k) ==
    IF k = 0 THEN 0
    ELSE BraceDepth(s, k - 1) + (IF s[k] = "{" THEN 1 ELSE IF s[k] = "}" THEN -1 ELSE 0)

\* JSON.parse: the parsed object when s is one object and nothing else,
\* Threw (a SyntaxError) otherwise.
JSONParse(s) ==
    IF /\ s # << >>
       /\ s[1] = "{"
       /\ \A k \in 1..Len(s) : s[k] # "x"
       /\ \A k \in 1..(Len(s) - 1) : BraceDepth(s, k) >= 1
       /\ BraceDepth(s, Len(s)) = 0
    THEN [t |-> "obj", json |-> s]
    ELSE Threw

\* The inner try block on the body `data` of an ok response: the parsed
\* object, or the error the catch block throws in place of whatever was
\* raised (data.content[0].text of a body without content, content.match
\* of a value that is not a string, no match, JSON.parse).
parseReply(data, failure) ==
    IF data.t # "text" THEN ErrorOf(failure)
    ELSE LET m == jsonMatch(data.v)
         IN  IF m.t = "null" THEN ErrorOf(failure)
             ELSE IF JSONParse(m.v).t = "threw" THEN ErrorOf(failure)
             ELSE JSONParse(m.v)

\* What the body of the try block of one loop iteration does with the
\* answer to its request: "continue" (status 404), the returned object, or
\* the error it throws.
tryModel(model, reply) ==
    CASE reply.kind = "reject" -> ErrorOf(reply.message)
      [] reply.kind = "http" ->
            IF reply.status = 404
            THEN [t |-> "continue",
                  lastError |-> ErrorOf(<<"M","o","d","e","l"," ">> \o model \o <<" ","n","o","t"," ","f","o","u","n","d">>)]
            ELSE ErrorOf(<<"C","l","a","u","d","e"," ","A","P","I"," ","e",
                          "r","r","o","r",":"," ">> \o StatusDigits[reply.status]
                         \o <<" ","-"," ">> \o reply.body)
      [] reply.kind = "ok" ->
            IF reply.data.t = "threw" THEN ErrorOf(<<"U","n","e","x","p","e","c","t",
                                          "e","d"," ","t","o","k","e","n">>)
            ELSE parseReply(reply.data,
                            <<"F","a","i","l","e","d"," ","t","o"," ","p",
                              "a","r","s","e"," ","C","l","a","u","d","e",
                              " ","r","e","s","p","o","n","s","e">>)

\* The catch block of the loop: an error whose message includes 'not found'
\* or '404' is kept as lastError and the loop goes on, any other is thrown.
isModelNotFound(error) ==
    \/ includes(error.message, <<"n","o","t"," ","f","o","u","n","d">>)
    \/ includes(error.message, <<"4","0","4">>)

\* One iteration of the for loop from the answer on, and the throw after
\* the loop when it was the last one.
claudeIteration(call, reply) ==
    LET r == tryModel(claudeModels[call.model], reply)
        goesOn == r.t = "continue" \/ (r.t = "threw" /\ isModelNotFound(r))
        lastError == IF r.t = "continue" THEN r.lastError ELSE r
    IN  IF ~goesOn
        THEN [call EXCEPT !.pc = "done", !.outcome = r]
        ELSE IF call.model < Len(claudeModels)
        THEN [call EXCEPT !.pc = "fetch", !.model = call.model + 1,
                          !.lastError = lastError]
        ELSE [call EXCEPT !.pc = "done", !.lastError = lastError,
                          !.outcome = ErrorOf(<<"A","l","l"," ","C","l","a",
                                                "u","d","e"," ","m","o","d",
                                                "e","l","s"," ","f","a","i",
                                                "l","e","d","."," ","L","a",
                                                "s","t"," ","e","r","r","o",
                                                "r",":"," ">>
                                              \o lastError.message)]

\* getOpenAIAnalysis from the answer on
openAIResponse(call, reply) ==
    LET r == CASE reply.kind = "reject" -> ErrorOf(reply.message)
               [] reply.kind = "http" ->
                     ErrorOf(<<"O","p","e","n","A","I"," ","A","P","I"," ",
                               "e","r","r","o","r",":"," ">> \o StatusDigits[reply.status]
                             \o <<" ","-"," ">> \o reply.body)
               [] reply.kind = "ok" ->
                     IF reply.data.t = "threw" THEN ErrorOf(<<"U","n","e","x","p","e","c","t",
                                          "e","d"," ","t","o","k","e","n">>)
                     ELSE parseReply(reply.data,
                                     <<"F","a","i","l","e","d"," ","t","o",
                                       " ","p","a","r","s","e"," ","O","p",
                                       "e","n","A","I"," ","r","e","s","p",
                                       "o","n","s","e">>)
    IN  [call EXCEPT !.pc = "done", !.outcome = r]
\* What the answer to one request can be: fetch rejects, the provider
\* answers with an error status and a body, or with an ok response whose
\* body cannot be read as JSON (Threw), has no text, has a text that is not
\* a string, or has the text given.
ErrorBodies ==
    { <<"o","v","e","r","l","o","a","d","e","d">>,
      <<"r","e","s","o","u","r","c","e"," ","n","o","t"," ","f","o","u","n","d">>,
      <<"r","e","q","_","0","1","4","0","4","a">> }

RECURSIVE ReplyTexts(_)
ReplyTexts(n) ==
    IF n = 0 THEN {<< >>}
    ELSE {Append(s, c) : s \in ReplyTexts(n - 1), c \in {"{", "}", "n", "x"}}

ProviderReplies ==
    {[kind |-> "reject", message |-> <<"f","e","t","c","h"," ","f","a","i","l","e","d">>]}
    \cup {[kind |-> "http", status |-> s, body |-> b] :
             s \in DOMAIN StatusDigits \ {429}, b \in ErrorBodies}
    \cup {[kind |-> "http", status |-> 429, body |-> <<"o","v","e","r","l","o","a","d","e","d">>]}
    \cup {[kind |-> "ok", data |-> d] :
             d \in {Threw, Undef, Num(7)}
                   \cup {Text(s) : s \in UNION {ReplyTexts(n) : n \in 0..MaxTextLen}}}

\* getAIAnalysis: the provider of the settings decides which adapter runs.
\* requests lists the models asked so far, replies the answers received and
\* matched what the last answer's text gave to JSON.parse.
InitProvider ==
    /\ providerCall \in
           {[provider |-> p, pc |-> "fetch", model |-> 1, requests |-> << >>,
             replies |-> << >>, matched |-> NoResult, lastError |-> Null,
             outcome |-> NoResult] :
                p \in {"claude", "openai"}}
    /\ IdleNorm /\ IdleTasks /\ IdleHistory /\ IdleExport /\ IdlePipeline /\ IdlePrompt

\* await fetch(...): the request for the current model (the one request of
\* getOpenAIAnalysis) is sent.
Fetch ==
    /\ providerCall # NoResult
    /\ providerCall.pc = "fetch"
    /\ providerCall' = [providerCall EXCEPT !.pc = "await",
                                            !.requests = Append(@, providerCall.model)]
    /\ UNCHANGED <<normVars, taskVars, historyVars, exportVars, pipelineVars, promptVars>>

ClaudeResponse ==
    /\ providerCall # NoResult
    /\ providerCall.provider = "claude" /\ providerCall.pc = "await"
    /\ \E reply \in ProviderReplies :
          providerCall' = [claudeIteration(providerCall, reply)
                              EXCEPT !.replies = Append(@, reply),
                                     !.matched = IF reply.kind = "ok" /\ reply.data.t = "text"
                                                 THEN jsonMatch(reply.data.v)
                                                 ELSE NoResult]
    /\ UNCHANGED <<normVars, taskVars, historyVars, exportVars, pipelineVars, promptVars>>

OpenAIResponse ==
    /\ providerCall # NoResult
    /\ providerCall.provider = "openai" /\ providerCall.pc = "await"
    /\ \E reply \in ProviderReplies :
          providerCall' = [openAIResponse(providerCall, reply)
                              EXCEPT !.replies = Append(@, reply),
                                     !.matched = IF reply.kind = "ok" /\ reply.data.t = "text"
                                                 THEN jsonMatch(reply.data.v)
                                                 ELSE NoResult]
    /\ UNCHANGED <<normVars, taskVars, historyVars, exportVars, pipelineVars, promptVars>>

NextProvider == Fetch \/ ClaudeResponse \/ OpenAIResponse

SpecProvider == InitProvider /\ [][NextProvider]_vars

---------------------------------------------------------------------------
(* Properties of the provider adapter, under SpecProvider.                 *)

ClaudeCall == providerCall # NoResult /\ providerCall.provider = "claude"

\* An HTTP error other than 404
IsHardHttpError(reply) == reply.kind = "http" /\ reply.status # 404

\* A successful response whose text cannot be parsed
IsUnparseable(reply) ==
    /\ reply.kind = "ok"
    /\ reply.data.t = "text"
    /\ parseReply(reply.data, << >>).t = "threw"

\* A successful response whose text is parsed
IsParsed(reply) ==
    /\ reply.kind = "ok"
    /\ reply.data.t = "text"
    /\ parseReply(reply.data, << >>).t = "obj"

\* C13: in getClaudeAnalysis an answer that is an HTTP error other than 404,
\* or an ok response whose text cannot be parsed, ends the call at once: no
\* later model is requested whatever the error body says, and the error
\* thrown for an HTTP error carries the upstream status and body.
C13_HardErrorAbortsCall ==
    ClaudeCall =>
        \A i \in 1..Len(providerCall.replies) :
            LET reply == providerCall.replies[i]
            IN  (IsHardHttpError(reply) \/ IsUnparseable(reply)) =>
                    /\ Len(providerCall.requests) = i
                    /\ providerCall.pc = "done"
                    /\ providerCall.outcome.t = "threw"
                    /\ IsHardHttpError(reply) =>
                          /\ includes(providerCall.outcome.message,
                                      StatusDigits[reply.status])
                          /\ includes(providerCall.outcome.message, reply.body)

\* C14: within one provider call the requests go out one at a time in the
\* order of the model list, each model at most once, model i+1 only after
\* model i answered 404; the first parsed reply ends the call; OpenAI makes
\* exactly one request; so a call makes at most 4 (Claude) or 1 (OpenAI)
\* requests.
C14_SequentialModelFallback ==
    providerCall # NoResult =>
        LET requests == providerCall.requests
            replies  == providerCall.replies
        IN  /\ requests = [i \in 1..Len(requests) |-> i]
            /\ Len(replies) = Len(requests) - (IF providerCall.pc = "await" THEN 1 ELSE 0)
            /\ \A i \in 2..Len(requests) :
                   replies[i - 1].kind = "http" /\ replies[i - 1].status = 404
            /\ \A i \in 1..Len(replies) :
                   IsParsed(replies[i]) =>
                       /\ Len(requests) = i
                       /\ providerCall.pc = "done"
                       /\ providerCall.outcome.t = "obj"
            /\ Len(requests) <= (IF providerCall.provider = "claude"
                                 THEN Len(claudeModels) ELSE 1)
            /\ (providerCall.provider = "openai" /\ providerCall.pc = "done")
                   => Len(requests) = 1

\* The first balanced span of a text: from the first "{" to the "}" that
\* balances it; << >> when there is none.
BalancedSpan(content) ==
    LET opens == {i \in 1..Len(content) : content[i] = "{"}
        first == CHOOSE i \in opens : \A k \in opens : i <= k
        ends  == {j \in first..Len(content) :
                     BraceDepth(content, j) = BraceDepth(content, first - 1)}
        end   == CHOOSE j \in ends : \A k \in ends : j <= k
    IN  IF opens = {} THEN << >>
        ELSE IF ends = {} THEN << >>
        ELSE SubSeq(content, first, end)

\* C15: for a reply text that contains a JSON object, what the adapter
\* extracts and parses is the first balanced {...} span of the text: text
\* after that object, further braces included, is not part of it.
C15_ExtractsFirstBalancedSpan ==
    (providerCall # NoResult /\ providerCall.matched # NoResult) =>
        LET content == providerCall.replies[Len(providerCall.replies)].data.v
        IN  JSONParse(BalancedSpan(content)).t = "obj" =>
                providerCall.matched = Text(BalancedSpan(content))

---------------------------------------------------------------------------
(* The analysis page: initializeAnalysis runs the four stages, storing the *)
(* crawl data and the analysis result in local storage between them, and   *)
(* the results page saves the report to the history.  The page calls the   *)
(* route POST /api/ai-analyze, which runs AIAnalysisEngine.analyzeWebsite. *)
(* A step of the model is what runs between two waits of the code (a       *)
(* timer, the scrape, the route's answer, a resolved await).  A write to   *)
(* local storage either works or throws (the quota is exceeded), and the   *)
(* history blob may not read back as a list, as the browser decides.       *)

PageUrls == {SITE_URL, "https://shop.example.com/cart"}

\* new URL(url): hostname and origin of the URLs that parse; isValidUrl of
\* the home page has accepted the URL before it stored it.
UrlParts ==
    (SITE_URL :> [hostname |-> "example.com", origin |-> SITE_URL])
    @@ ("https://shop.example.com/cart" :>
            [hostname |-> "shop.example.com", origin |-> "https://shop.example.com"])

PageSettings ==
    [firecrawlKey : {"fc-key"}, aiKey : {"sk-key"}, aiProvider : {"claude", "openai"},
     analysisDepth : {"standard"}, includeMobile : BOOLEAN]

\* useState of steps: the four stages, all pending
InitialSteps ==
    [validation |-> "pending", crawling |-> "pending", analysis |-> "pending",
     scoring |-> "pending"]

updateStepStatus(steps, stepId, status) == [steps EXCEPT ![stepId] = status]

\* Mutant: the catch block marks only the stages that are not completed.
catchAnalysisError_keepCompleted(p, message) ==
    [p EXCEPT !.pc = "failed",
              !.steps = [s \in DOMAIN p.steps |->
                            IF p.steps[s] = "completed" THEN "completed" ELSE "error"],
              !.error = Str(message),
              !.isAnalyzing = FALSE]

\* The catch block of initializeAnalysis
catchAnalysisError(p, message) ==
    [p EXCEPT !.pc = "failed",
              !.steps = [s \in DOMAIN p.steps |-> "error"],
              !.error = Str(message),
              !.isAnalyzing = FALSE]

\* FirecrawlClient.fallbackScrape(url): one page made from the URL alone
fallbackScrape(url) ==
    IF url \notin DOMAIN UrlParts
    THEN ErrorOf("Failed to create fallback analysis: Invalid URL")
    ELSE [ t |-> "obj",
           pages |-> << [ url |-> url,
                          title |-> <<UrlParts[url].hostname, " - Basic Analysis">>,
                          statusCode |-> 200 ] >>,
           metadata |-> [ totalPages |-> 1, crawlDepth |-> "fallback",
                          baseUrl |-> UrlParts[url].origin, fallback |-> TRUE ] ]

\* What FirecrawlClient.scrapePage gives: the transformed page, or an error
\* (the SDK call fails or answers success: false).
ScrapeOutcomes(url) ==
    { [ t |-> "obj",
        pages |-> << [url |-> url, title |-> <<"Untitled">>, statusCode |-> 200] >>,
        metadata |-> [ totalPages |-> 1, crawlDepth |-> "single-page",
                       baseUrl |-> UrlParts[url].origin, fallback |-> FALSE ] ],
      ErrorOf("Scraping failed: timeout") }

\* JSON.stringify of a report as NextResponse.json and localStorage carry
\* it: NaN becomes null, a Date its time (parsed back with new Date), and
\* an undefined field is left out, which reads as undefined again.
ReportAsJson(report) ==
    [report EXCEPT !.overallScore = IF @.t = "nan" THEN Null ELSE @]

\* What getAIAnalysis gives the engine: the parsed reply, or the error the
\* adapter threw.
AnalysisOutcomes ==
    { [t |-> "obj", value |-> [categories |-> c, overallAssessment |-> Undef]] :
          c \in { Undef,
                  Arr(<<RawCategory(Str("navigation"), Num(80), Undef, Undef, Undef)>>),
                  Arr(<<RawCategory(Str("forms"), Str("abc"), Undef, Undef, Undef)>>),
                  Arr(<<Null>>) } }
    \cup { ErrorOf(<<"F","a","i","l","e","d"," ","t","o"," ","p","a","r","s","e">>),
           ErrorOf(<<"A","l","l"," ","m","o","d","e","l","s"," ","f","a","i","l","e","d">>) }

\* The end of POST: the answer for what engine.analyzeWebsite gave or threw.
RespondTo(report) ==
    IF report.t = "threw"
    THEN [status |-> 500, success |-> FALSE, error |-> "TypeError"]
    ELSE [status |-> 200, success |-> TRUE, data |-> ReportAsJson(report)]

\* POST of app/api/ai-analyze/route.ts on the request body; llm is what
\* getAIAnalysis gives inside engine.analyzeWebsite.
POST(request, llm, now) ==
    IF request.url = "" \/ request.crawlData.t # "obj"
    THEN [status |-> 400, success |-> FALSE,
          error |-> "URL, crawl data, and settings are required"]
    ELSE IF request.settings.aiKey = ""
    THEN [status |-> 400, success |-> FALSE, error |-> "AI API key is required"]
    ELSE IF llm.t = "threw"
    THEN [status |-> 500, success |-> FALSE, error |-> llm.message]
    ELSE RespondTo(analyzeWebsite(request.url, llm.value, request.settings, now))

\* How often a stored report is reopened from the history in one run
MaxPlays == 1

\* The time after which the results page does not save a report
FRESH_WINDOW_MS == 300000

\* The historyItem of saveToHistory with all its fields.  HistoryItem is
\* its restriction to the fields the history operations read.
StoredHistoryItem(report, now) ==
    [id |-> now, url |-> report.url, timestamp |-> report.timestamp,
     overallScore |-> report.overallScore,
     summary |-> [highIssues |-> report.summary.highIssues,
                  mediumIssues |-> report.summary.mediumIssues,
                  lowIssues |-> report.summary.lowIssues],
     resultData |-> report,
     settings |-> [aiProvider |-> report.settings.aiProvider,
                   analysisDepth |-> report.settings.analysisDepth]]

\* HistoryManager.saveToHistory(report) as the results page calls it: what
\* the blob holds afterwards.  A failed read makes getHistory return [],
\* a failed write leaves the blob as it was; neither is thrown.
saveToHistory(stored, report, now, readable, writable) ==
    LET existingHistory == IF readable THEN getHistory(stored) ELSE << >>
        historyItem == StoredHistoryItem(report, now)
        index == existingIndex(existingHistory, report)
    IN  IF writable THEN Arr(newHistory(existingHistory, historyItem, index))
        ELSE stored

\* Mutant: a report exactly five minutes old counts as fresh.
isFresh_inclusive(timestamp, now) == now - timestamp <= FRESH_WINDOW_MS

\* The test of the results page: timeDifference < 5 * 60 * 1000
isFresh(timestamp, now) == now - timestamp < FRESH_WINDOW_MS

\* A report of an earlier run, as the history holds it.
EarlierReport ==
    [t |-> "report", url |-> SITE_URL, timestamp |-> 9985000,
     settings |-> [firecrawlKey |-> "fc-key", aiKey |-> "sk-key",
                   aiProvider |-> "claude", analysisDepth |-> "standard",
                   includeMobile |-> FALSE],
     overallScore |-> Num(70), overallAssessment |-> Undef, categories |-> << >>,
     summary |-> [t |-> "summary", highIssues |-> 0, mediumIssues |-> 0,
                  lowIssues |-> 0, recommendations |-> << >>]]

\* What local storage holds when the page mounts: the URL the home page
\* stored, and the settings (none, text that is not JSON, or settings).
StoredSettings ==
    {Absent, [t |-> "garbage"]}
    \cup {[t |-> "json", v |-> s] : s \in PageSettings}
    \cup {[t |-> "json",
           v |-> [firecrawlKey |-> "", aiKey |-> "sk-key", aiProvider |-> "claude",
                  analysisDepth |-> "standard", includeMobile |-> TRUE]]}

InitPipeline ==
    /\ page = [pc |-> "mounted", url |-> "", settings |-> Null,
               steps |-> InitialSteps, currentStep |-> 0, isAnalyzing |-> FALSE,
               error |-> Null, location |-> "/analysis", request |-> NoResult,
               response |-> NoResult, scrape |-> "none", llm |-> "none",
               storageFailed |-> FALSE, shown |-> NoResult, plays |-> 0]
    /\ pageStore \in [analysisUrl : {Absent} \cup {Str(u) : u \in PageUrls},
                      analysisSettings : StoredSettings,
                      crawlData : {Absent}, analysisResult : {Absent}]
    /\ storage \in {Absent, Arr(<<StoredHistoryItem(EarlierReport, 9990000)>>)}
    /\ clock = 10000000
    /\ modalOpen = FALSE /\ modalHistory = << >>
    /\ lastOp = [op |-> "none"] /\ opCount = 0
    /\ IdleNorm /\ IdleTasks /\ IdleExport /\ IdleProvider /\ IdlePrompt

\* The mount effect: read the URL and the settings, check the keys, and set
\* the timer that starts the run.
Mount ==
    /\ page # NoResult /\ page.pc = "mounted"
    /\ page' =
          IF pageStore.analysisUrl.t = "absent"
          THEN [page EXCEPT !.pc = "idle", !.error = Str("No URL provided for analysis")]
          ELSE LET p == [page EXCEPT !.url = pageStore.analysisUrl.v]
                   saved == pageStore.analysisSettings
               IN  IF saved.t = "absent"
                   THEN [p EXCEPT !.pc = "idle",
                                  !.error = Str("Please configure your settings first")]
                   ELSE IF saved.t = "garbage"
                   THEN [p EXCEPT !.pc = "idle",
                                  !.error = Str("Invalid settings configuration")]
                   ELSE IF saved.v.firecrawlKey = "" \/ saved.v.aiKey = ""
                   THEN [p EXCEPT !.pc = "idle", !.settings = saved.v,
                                  !.error = Str("Please configure your API keys")]
                   ELSE [p EXCEPT !.pc = "timer", !.settings = saved.v]
    /\ UNCHANGED <<pageStore, normVars, taskVars, historyVars, exportVars, providerVars, promptVars>>

\* The timer fires: initializeAnalysis up to the wait of simulateStep(1000).
StartAnalysis ==
    /\ page # NoResult /\ page.pc = "timer"
    /\ page' = [page EXCEPT !.pc = "validating", !.isAnalyzing = TRUE, !.error = Null,
                            !.steps = updateStepStatus(@, "validation", "active")]
    /\ UNCHANGED <<pageStore, normVars, taskVars, historyVars, exportVars, providerVars, promptVars>>

ValidationDone ==
    /\ page # NoResult /\ page.pc = "validating"
    /\ page' = [page EXCEPT !.pc = "crawl_start",
                            !.steps = updateStepStatus(@, "validation", "completed")]
    /\ UNCHANGED <<pageStore, normVars, taskVars, historyVars, exportVars, providerVars, promptVars>>

\* Stage 2 begins: performCrawling up to the wait for scrapePage.
BeginCrawling ==
    /\ page # NoResult /\ page.pc = "crawl_start"
    /\ page' = [page EXCEPT !.pc = "scraping", !.currentStep = 1,
                            !.steps = updateStepStatus(@, "crawling", "active")]
    /\ UNCHANGED <<pageStore, normVars, taskVars, historyVars, exportVars, providerVars, promptVars>>

\* scrapePage has answered: the rest of performCrawling.
PerformCrawling ==
    /\ page # NoResult /\ page.pc = "scraping"
    /\ \E scrape \in ScrapeOutcomes(page.url), writable \in BOOLEAN :
          LET scrapeData == IF scrape.t = "threw" THEN fallbackScrape(page.url)
                            ELSE scrape
              p == [page EXCEPT !.scrape = scrape.t]
          IN  IF scrapeData.t = "threw"
              THEN /\ page' = catchAnalysisError(p, "Failed to scrape website")
                   /\ UNCHANGED pageStore
              ELSE IF ~writable
              THEN /\ page' = catchAnalysisError([p EXCEPT !.storageFailed = TRUE],
                                                 "Failed to scrape website")
                   /\ UNCHANGED pageStore
              ELSE /\ page' = [p EXCEPT !.pc = "crawl_done"]
                   /\ pageStore' = [pageStore EXCEPT !.crawlData = scrapeData]
    /\ UNCHANGED <<normVars, taskVars, historyVars, exportVars, providerVars, promptVars>>

\* Mutant: the run goes on to the analysis stage without marking the
\* crawling stage completed.
CrawlingDone_skipped ==
    /\ page # NoResult /\ page.pc = "crawl_done"
    /\ page' = [page EXCEPT !.pc = "analysis_start"]
    /\ UNCHANGED <<pageStore, normVars, taskVars, historyVars, exportVars, providerVars, promptVars>>

CrawlingDone ==
    /\ page # NoResult /\ page.pc = "crawl_done"
    /\ page' = [page EXCEPT !.pc = "analysis_start",
                            !.steps = updateStepStatus(@, "crawling", "completed")]
    /\ UNCHANGED <<pageStore, normVars, taskVars, historyVars, exportVars, providerVars, promptVars>>

\* Stage 3 begins: performAnalysis up to the wait for the route's answer.
BeginAnalysis ==
    /\ page # NoResult /\ page.pc = "analysis_start"
    /\ LET p == [page EXCEPT !.currentStep = 2,
                              !.steps = updateStepStatus(@, "analysis", "active")]
       IN  page' =
             IF pageStore.crawlData.t = "absent"
             THEN catchAnalysisError(p, "Failed to analyze website")
             ELSE [p EXCEPT !.pc = "analyzing",
                            !.request = [url |-> page.url,
                                         crawlData |-> pageStore.crawlData,
                                         settings |-> page.settings]]
    /\ UNCHANGED <<pageStore, normVars, taskVars, historyVars, exportVars, providerVars, promptVars>>

\* The route has answered: the rest of performAnalysis.
PerformAnalysis ==
    /\ page # NoResult /\ page.pc = "analyzing"
    /\ \E llm \in AnalysisOutcomes, writable \in BOOLEAN :
       \E response \in {POST(page.request, llm, clock)} :
          LET p == [page EXCEPT !.response = response, !.llm = llm.t]
          IN  IF response.status # 200 \/ ~response.success
              THEN /\ page' = catchAnalysisError(p, "Failed to analyze website")
                   /\ UNCHANGED pageStore
              ELSE IF ~writable
              THEN /\ page' = catchAnalysisError([p EXCEPT !.storageFailed = TRUE],
                                                 "Failed to analyze website")
                   /\ UNCHANGED pageStore
              ELSE /\ page' = [p EXCEPT !.pc = "analysis_done"]
                   /\ pageStore' = [pageStore EXCEPT !.analysisResult = response.data]
    /\ UNCHANGED <<normVars, taskVars, historyVars, exportVars, providerVars, promptVars>>

AnalysisDone ==
    /\ page # NoResult /\ page.pc = "analysis_done"
    /\ page' = [page EXCEPT !.pc = "scoring_start",
                            !.steps = updateStepStatus(@, "analysis", "completed")]
    /\ UNCHANGED <<pageStore, normVars, taskVars, historyVars, exportVars, providerVars, promptVars>>

\* Stage 4 begins: generateReport waits in simulateStep(1500).
BeginScoring ==
    /\ page # NoResult /\ page.pc = "scoring_start"
    /\ page' = [page EXCEPT !.pc = "reporting", !.currentStep = 3,
                            !.steps = updateStepStatus(@, "scoring", "active")]
    /\ UNCHANGED <<pageStore, normVars, taskVars, historyVars, exportVars, providerVars, promptVars>>

ScoringDone ==
    /\ page # NoResult /\ page.pc = "reporting"
    /\ page' = [page EXCEPT !.pc = "navigate",
                            !.steps = updateStepStatus(@, "scoring", "completed")]
    /\ UNCHANGED <<pageStore, normVars, taskVars, historyVars, exportVars, providerVars, promptVars>>

\* router.push("/results")
Navigate ==
    /\ page # NoResult /\ page.pc = "navigate"
    /\ page' = [page EXCEPT !.pc = "results", !.location = "/results"]
    /\ UNCHANGED <<pageStore, normVars, taskVars, historyVars, exportVars, providerVars, promptVars>>

\* The mount effect of the results page: read the stored result and save
\* it to the history when it is fresh.
ShowResults ==
    /\ page # NoResult /\ page.pc = "results"
    /\ \E historyReadable \in BOOLEAN, historyWritable \in BOOLEAN,
          dt \in {1500, FRESH_WINDOW_MS} :
          LET now == clock + dt
              parsed == pageStore.analysisResult
              fresh == parsed.t # "absent" /\ isFresh(parsed.timestamp, now)
              failed == fresh /\ (~historyReadable \/ ~historyWritable)
          IN  /\ clock' = now
              /\ page' = [page EXCEPT !.pc = "shown",
                                      !.location = IF parsed.t = "absent" THEN "/" ELSE @,
                                      !.storageFailed = @ \/ failed,
                                      !.shown = [parsed |-> parsed, now |-> now,
                                                 before |-> storage,
                                                 readable |-> historyReadable,
                                                 writable |-> historyWritable]]
              /\ storage' = IF fresh
                            THEN saveToHistory(storage, parsed, now,
                                               historyReadable, historyWritable)
                            ELSE storage
    /\ UNCHANGED <<pageStore, modalOpen, modalHistory, lastOp, opCount, normVars,
                   taskVars, exportVars, providerVars,
                   promptVars>>

\* RecentModal.handlePlayResult(item) on an item of the history: the stored
\* report is put back as the analysis result and the results page is opened.
HandlePlayResult ==
    /\ page # NoResult /\ page.pc = "shown" /\ page.plays < MaxPlays
    /\ \E i \in 1..Len(getHistory(storage)), writable \in BOOLEAN :
          LET item == getHistory(storage)[i]
          IN  IF writable
              THEN /\ page' = [page EXCEPT !.pc = "results", !.location = "/results",
                                            !.plays = @ + 1]
                   /\ pageStore' = [pageStore EXCEPT !.analysisResult = item.resultData]
              ELSE /\ page' = [page EXCEPT !.plays = @ + 1]
                   /\ UNCHANGED pageStore
    /\ UNCHANGED <<normVars, taskVars, historyVars, exportVars, providerVars, promptVars>>

\* The positions of a run of initializeAnalysis that has not ended
RunningPositions ==
    {"validating", "crawl_start", "scraping", "crawl_done", "analysis_start",
     "analyzing", "analysis_done", "scoring_start", "reporting", "navigate"}

\* Mutant: leaving the page ends the run.
BackToHome_cancels ==
    /\ page # NoResult /\ page.pc \in RunningPositions \cup {"timer"}
    /\ page.location = "/analysis"
    /\ page' = [page EXCEPT !.location = "/", !.pc = "idle"]
    /\ UNCHANGED <<pageStore, normVars, taskVars, historyVars, exportVars, providerVars,
                   promptVars>>

\* The "Back to Home" button of the progress view: router.push("/").  The
\* effect's cleanup clears a timer that has not fired; a run that has
\* started is not told and goes on.
BackToHome ==
    /\ page # NoResult /\ page.pc \in RunningPositions \cup {"timer"}
    /\ page.location = "/analysis"
    /\ page' = [page EXCEPT !.location = "/",
                            !.pc = IF @ = "timer" THEN "idle" ELSE @]
    /\ UNCHANGED <<pageStore, normVars, taskVars, historyVars, exportVars, providerVars,
                   promptVars>>

\* A step of a run that has started: a timer of the run fires, an awaited
\* call returns or fails, or the run goes on after one.
RunStep ==
    \/ ValidationDone \/ BeginCrawling \/ PerformCrawling \/ CrawlingDone
    \/ BeginAnalysis \/ PerformAnalysis \/ AnalysisDone \/ BeginScoring
    \/ ScoringDone \/ Navigate

NextPipeline ==
    \/ Mount \/ StartAnalysis \/ ValidationDone \/ BeginCrawling \/ PerformCrawling
    \/ CrawlingDone \/ BeginAnalysis \/ PerformAnalysis \/ AnalysisDone
    \/ BeginScoring \/ ScoringDone \/ Navigate \/ ShowResults \/ HandlePlayResult
    \/ BackToHome

SpecPipeline == InitPipeline /\ [][NextPipeline]_vars

\* Every timer of a run fires and every call it awaits returns or fails.
SpecPipelineFair == SpecPipeline /\ WF_vars(RunStep)

---------------------------------------------------------------------------
(* Properties of the analysis page and its route, under SpecPipeline.      *)

\* The categories of a report made of the fallback table alone
FallbackCategories(includeMobile) ==
    LET all == [i \in 1..Len(USABILITY_CATEGORIES) |->
                   getKrugBasedRecommendations(USABILITY_CATEGORIES[i])]
    IN  IF includeMobile THEN all ELSE SelectSeq(all, IsNotMobile)

\* C12: when the provider call fails (HTTP error, every model refused, or
\* a reply that does not parse), the analysis request still succeeds: the
\* route answers with a report made of the whole fallback category data,
\* not with an error response.
C12_LlmFailureGivesFallbackReport ==
    (page # NoResult /\ page.llm = "threw") =>
        /\ page.response.status = 200
        /\ page.response.success
        /\ page.response.data.categories = FallbackCategories(page.settings.includeMobile)

\* C16: when the scrape fails, the scrape stage does not: performCrawling
\* stores the one-page record fallbackScrape makes from the URL (marked
\* fallback) as the crawl data, and the run goes on to the analysis stage.
C16_ScrapeFailureFallsBack ==
    (page # NoResult /\ page.scrape = "threw") =>
        /\ ~(page.pc = "failed" /\ page.currentStep = 1)
        /\ pageStore.crawlData = fallbackScrape(page.url)
        /\ pageStore.crawlData.metadata.fallback

StageOrder == <<"validation", "crawling", "analysis", "scoring">>

\* C17: in every run of initializeAnalysis the stages run in the order
\* validation, crawling, analysis, scoring: a stage is active or completed
\* only when every earlier stage is completed, at most one stage is active,
\* and the page is at /results only when all four are completed.
C17_StagesRunInOrder ==
    page # NoResult =>
        /\ \A i \in 1..Len(StageOrder) :
               page.steps[StageOrder[i]] \in {"active", "completed"} =>
                   \A j \in 1..(i - 1) : page.steps[StageOrder[j]] = "completed"
        /\ Cardinality({i \in 1..Len(StageOrder) :
                            page.steps[StageOrder[i]] = "active"}) <= 1
        /\ page.location = "/results" =>
               \A i \in 1..Len(StageOrder) : page.steps[StageOrder[i]] = "completed"

C17_Witness ==
    /\ page # NoResult
    /\ page.pc = "results" /\ page.location = "/results"
    /\ \A i \in 1..Len(StageOrder) : page.steps[StageOrder[i]] = "completed"
    /\ page.scrape = "threw" /\ page.llm = "obj"

\* C18: a failing local-storage read or write is a no-op that never stops
\* the flow: no persistence operation makes the analysis fail or throws to
\* its caller.
C18_StorageFailureNeverStops ==
    (page # NoResult /\ page.storageFailed) => page.pc # "failed"

---------------------------------------------------------------------------
(* Interleaved history writes and history ids, under SpecHistory.  The     *)
(* modal of one tab filters the list it loaded when it opened; a save in   *)
(* another tab may have changed the blob since.                            *)

Entries(list) == {list[i] : i \in 1..Len(list)}

\* C19: history writes are unlocked read-modify-write of one blob, and the
\* last write wins: when a tab writes the copy it made from an earlier
\* read, every entry another tab stored since that read is gone.
C19_StaleWriteLosesUpdate ==
    lastOp.op = "modalDelete" =>
        \A e \in Entries(lastOp.stored) :
            e \notin Entries(lastOp.read) => e \notin Entries(storage.v)

\* The modal was opened, another tab saved a report for a new URL, and the
\* modal's delete wrote its list: the saved entry is not in the store.
C19_Witness ==
    /\ lastOp.op = "modalDelete"
    /\ \E e \in Entries(lastOp.stored) :
           /\ e.id >= 10000000 /\ e.url = 61
           /\ e \notin Entries(lastOp.read)
           /\ e \notin Entries(storage.v)
    /\ lastOp.read # << >>

HasDistinctIds(list) ==
    \A i, j \in 1..Len(list) : list[i].id = list[j].id => i = j

\* C20: after any sequence of saveToHistory calls the entries of the
\* history have pairwise distinct ids, also when two saves happen within
\* one clock millisecond.
C20_SavedIdsDistinct ==
    (lastOp.op = "save" /\ HasDistinctIds(lastOp.read)) => HasDistinctIds(storage.v)


---------------------------------------------------------------------------
(* Claims on the results page and the history it writes.                   *)

ResultsShown == page # NoResult /\ page.pc = "shown" /\ page.shown.parsed.t = "report"

ShownAge == page.shown.now - page.shown.parsed.timestamp

\* C21: on loading the results page the report is saved to the history only
\* if its timestamp is less than five minutes before the current time; a
\* report five minutes old or older, such as one reopened from the history,
\* causes no history write.
C21_SavedOnlyIfFresh ==
    ResultsShown =>
        /\ ShownAge >= FRESH_WINDOW_MS => storage = page.shown.before
        /\ storage # page.shown.before => ShownAge < FRESH_WINDOW_MS

\* A report reopened from the history, exactly five minutes old, is shown
\* and the history is as it was.
C21_Witness ==
    /\ ResultsShown /\ page.plays = 1 /\ page.location = "/results"
    /\ ShownAge = FRESH_WINDOW_MS
    /\ page.shown.writable /\ page.shown.readable
    /\ storage.t = "arr" /\ storage = page.shown.before

---------------------------------------------------------------------------
(* Further properties of the normalization pipeline, under SpecNorm.       *)

\* C22: for every category that has an entry in the reply, the normalized
\* score is the raw score when that is a number in [0,100], 0 included, and
\* 50 when the raw score is missing or not a number; the normalized score is
\* always a number in [0,100].
C22_ScoreIsRawOrDefault ==
    HasReport =>
        \A i \in 1..Len(result.categories) :
            LET id == result.categories[i].id
                score == result.categories[i].score
            IN  HasRawEntry(id) =>
                    LET raw == RawEntry(id).score
                    IN  /\ (raw.t = "num" /\ raw.v >= 0 /\ raw.v <= 100) => score = raw
                        /\ raw.t # "num" => score = Num(DEFAULT_SCORE)
                        /\ score.t = "num" /\ score.v >= 0 /\ score.v <= 100

\* The tasks of the category's keyword table whose keyword occurs in the
\* description of one of the issues.
KeywordTasks(id, issues) ==
    IF id \notin DOMAIN taskMappings THEN {}
    ELSE { taskMappings[id][k].task : k \in
             { k \in 1..Len(taskMappings[id]) :
                 \E n \in 1..Len(issues) :
                     /\ issues[n].description.t = "text"
                     /\ includes(toLowerCase(issues[n].description.v),
                                 taskMappings[id][k].keyword) } }

\* Str of each task of the category in the report
ReportedTasks(i) ==
    { Str(result.categories[i].implementationTasks[j]) :
          j \in 1..Len(result.categories[i].implementationTasks) }

\* C23: for every category that has an entry in the reply, each
\* implementation task is a task of the category's keyword table chosen by a
\* keyword that occurs in an issue description, or the category's one
\* generic audit task, which appears only when no issue maps to a task and
\* the score is below 60; a task list supplied in the reply never appears.
C23_TasksDerivedFromIssues ==
    HasReport =>
        \A i \in 1..Len(result.categories) :
            LET cat == result.categories[i]
                mapped == KeywordTasks(cat.id, cat.issues)
            IN  HasRawEntry(cat.id) =>
                    /\ \A j \in 1..Len(cat.implementationTasks) :
                           \/ cat.implementationTasks[j] \in mapped
                           \/ /\ cat.implementationTasks[j] = essentialTasks[cat.id][1]
                              /\ mapped = {}
                              /\ LessThan(cat.score, Num(LOW_SCORE))
                    /\ RawEntry(cat.id).implementationTasks.t = "arr" =>
                           \A k \in 1..Len(RawEntry(cat.id).implementationTasks.v) :
                               RawEntry(cat.id).implementationTasks.v[k]
                                   \notin ReportedTasks(i)

\* A report in which a category that came with the provider's task list has
\* the breadcrumb task of its keyword table, and another category, scored
\* 55 with no issue, has its generic audit task.
C23_Witness ==
    /\ HasReport
    /\ \E i, j \in 1..Len(result.categories) :
           /\ HasRawEntry(ReportIds[i])
           /\ RawEntry(ReportIds[i]).implementationTasks = ProviderTasks
           /\ result.categories[i].implementationTasks =
                  <<"[ ] Add breadcrumb navigation showing path from home">>
           /\ HasRawEntry(ReportIds[j])
           /\ RawEntry(ReportIds[j]).score = Num(55)
           /\ result.categories[j].issues = << >>
           /\ result.categories[j].implementationTasks =
                  <<essentialTasks[ReportIds[j]][1]>>

---------------------------------------------------------------------------
(* Further properties of the todo export, under SpecExport.                *)

ImplementationTaskCount(category) ==
    IF category.implementationTasks.t = "arr"
    THEN Cardinality({i \in DOMAIN category.implementationTasks.v :
                         IsString(category.implementationTasks.v[i])})
    ELSE 0

ObjectRecommendationCount(category) ==
    IF category.recommendations.t = "arr"
    THEN Cardinality({i \in DOMAIN category.recommendations.v :
                         category.recommendations.v[i].t = "obj"})
    ELSE 0

HighIssueCount(category) ==
    IF category.issues.t = "arr"
    THEN Cardinality({i \in DOMAIN category.issues.v :
                         category.issues.v[i].type = "high"})
    ELSE 0

\* The number of tasks the derivation rule gives for the report
ExpectedTaskCount(report) ==
    SumSeq([i \in DOMAIN report.categories.v |->
               ImplementationTaskCount(report.categories.v[i])
               + ObjectRecommendationCount(report.categories.v[i])
               + HighIssueCount(report.categories.v[i])])

ExportedTaskCount ==
    IF exportInput.exportOptions.groupByCategory
    THEN Cardinality(GroupElements(exportOutput.body))
    ELSE Cardinality(ArrayElements(exportOutput.body))

\* C24: the tasks made for a report are exactly one per implementation-task
\* string, one per recommendation that is an object, and one per
\* high-severity issue, summed over the categories.
C24_OneTaskPerSource ==
    Exported => ExportedTaskCount = ExpectedTaskCount(exportInput.analysisResult)

\* C25: for every category that has an entry in the reply, each raw
\* recommendation is normalized: a plain string is kept as it is, an object
\* becomes a recommendation with the three fields action, userTask and
\* krugReference, the reference being the empty string when the reply gives
\* none; no recommendation object of the report lacks one of the fields.
C25_RecommendationsNormalized ==
    HasReport =>
        \A i \in 1..Len(result.categories) :
            LET cat == result.categories[i]
            IN  HasRawEntry(cat.id) =>
                    LET raw == RawEntry(cat.id).recommendations
                        recs == cat.recommendations
                    IN  (raw.t = "arr" /\ raw.v # << >>) =>
                            /\ recs.t = "arr" /\ Len(recs.v) = Len(raw.v)
                            /\ \A k \in 1..Len(raw.v) :
                                   /\ IsString(raw.v[k]) => recs.v[k] = raw.v[k]
                                   /\ raw.v[k].t = "obj" =>
                                          /\ recs.v[k].t = "obj"
                                          /\ recs.v[k].action.t # "undef"
                                          /\ recs.v[k].userTask.t # "undef"
                                          /\ recs.v[k].krugReference =
                                                 OrElse(raw.v[k].krugReference, Str(""))

---------------------------------------------------------------------------
(* The prompt builder of the engine: AIAnalysisEngine.createAnalysisPrompt. *)
(* A text is carried by its length, and the prompt by what it holds of the  *)
(* crawl: per page the number of characters of HTML and of markdown that    *)
(* are embedded, with the depth named in its header.                        *)

PROMPT_PAGES == 3
HTML_SLICE == 8000
MARKDOWN_SLICE == 2000
MaxCrawlPages == 4

AnalysisDepths == {"quick", "standard", "deep"}

\* The length of text.slice(0, n) for a text of the given length
SliceLength(length, n) == IF length < n THEN length ELSE n

\* Lengths of page.metadata.htmlContent and page.metadata.markdownContent;
\* a page without them counts as empty ('').
PageContents ==
    { [htmlContent |-> 0, markdownContent |-> 0],
      [htmlContent |-> 5000, markdownContent |-> 1000],
      [htmlContent |-> 9000, markdownContent |-> 3000] }

CrawlPageLists == UNION {[1..n -> PageContents] : n \in 1..MaxCrawlPages}

createAnalysisPrompt(engineSettings, pages) ==
    LET used == SliceTo(pages, PROMPT_PAGES)
    IN  [t |-> "prompt", analysisDepth |-> engineSettings.analysisDepth,
         pages |-> [i \in 1..Len(used) |->
                       [html |-> SliceLength(used[i].htmlContent, HTML_SLICE),
                        markdown |-> SliceLength(used[i].markdownContent,
                                                 MARKDOWN_SLICE)]]]

InitPrompt ==
    /\ crawlPages \in CrawlPageLists
    /\ prompts = [d \in AnalysisDepths |-> NoResult]
    /\ IdleNorm /\ IdleTasks /\ IdleHistory /\ IdleExport /\ IdleProvider /\ IdlePipeline

\* An engine made with the settings of one depth builds its prompt.
CreatePrompt ==
    /\ prompts # NoResult
    /\ \E depth \in AnalysisDepths :
          /\ prompts[depth] = NoResult
          /\ prompts' = [prompts EXCEPT ![depth] =
                 createAnalysisPrompt([aiKey |-> "sk-key", aiProvider |-> "claude",
                                       analysisDepth |-> depth, includeMobile |-> TRUE],
                                      crawlPages)]
    /\ UNCHANGED <<crawlPages, normVars, taskVars, historyVars, exportVars,
                   providerVars, pipelineVars>>

NextPrompt == CreatePrompt

SpecPrompt == InitPrompt /\ [][NextPrompt]_vars

---------------------------------------------------------------------------
(* Properties of the prompt builder, under SpecPrompt.                     *)

PromptMade(depth) == prompts # NoResult /\ prompts[depth] # NoResult

\* The characters of page content embedded for page i
EmbeddedChars(depth, i) == prompts[depth].pages[i].html + prompts[depth].pages[i].markdown

\* The page's content is longer than what any depth embeds of it.
IsLongPage(i) ==
    /\ crawlPages[i].htmlContent > HTML_SLICE
    /\ crawlPages[i].markdownContent > MARKDOWN_SLICE

\* C26: the number of characters of page content embedded per page is bounded
\* by a budget that grows with the analysis depth: a page longer than the
\* budgets is embedded with fewer characters at depth quick than at
\* standard, and with fewer at standard than at deep.
C26_BudgetGrowsWithDepth ==
    \A i \in 1..Len(crawlPages) :
        (i <= PROMPT_PAGES /\ IsLongPage(i)) =>
            /\ (PromptMade("quick") /\ PromptMade("standard")) =>
                   EmbeddedChars("quick", i) < EmbeddedChars("standard", i)
            /\ (PromptMade("standard") /\ PromptMade("deep")) =>
                   EmbeddedChars("standard", i) < EmbeddedChars("deep", i)

---------------------------------------------------------------------------
(* How a run of initializeAnalysis ends, under SpecPipeline and            *)
(* SpecPipelineFair.                                                       *)

RunStarted == page # NoResult /\ page.pc \in RunningPositions

AllSteps(status) == \A i \in 1..Len(StageOrder) : page.steps[StageOrder[i]] = status

\* All four stages are completed and the run has navigated to /results.
RunSucceeded ==
    /\ page # NoResult /\ page.pc \in {"results", "shown"}
    /\ AllSteps("completed")

\* The messages the catch block of a run sets
FailureMessages == {"Failed to scrape website", "Failed to analyze website"}

\* The error state
RunFailed ==
    IF page # NoResult /\ page.pc = "failed"
    THEN ~page.isAnalyzing /\ page.error \in {Str(m) : m \in FailureMessages}
    ELSE FALSE

\* C27: a run that has started cannot be cancelled and, when every timer
\* fires and every external call returns or fails, ends in exactly one of
\* two ways: all four stages completed and the results page opened, or the
\* error state with isAnalyzing false.
C27_RunEndsOneWay ==
    /\ RunStarted ~> (RunSucceeded \/ RunFailed)
    /\ [](~(RunSucceeded /\ RunFailed))

\* A run that went on after the user had left the page, and failed in the
\* analysis stage.
C27_Witness ==
    /\ RunFailed /\ page.location = "/" /\ page.currentStep = 2
    /\ page.llm = "threw"

\* The state the catch block of a failed run leaves
FailedRunState ==
    IF page # NoResult /\ page.pc = "failed"
    THEN /\ AllSteps("error")
         /\ page.error \in {Str(m) : m \in FailureMessages}
         /\ ~page.isAnalyzing
         /\ page.location # "/results"
         /\ page.currentStep < 2 => (page.llm = "none" /\ page.request = NoResult)
         /\ pageStore.analysisResult = Absent
    ELSE FALSE

\* C30: when a stage of initializeAnalysis fails, all four steps have the
\* status error at the end of the run, those that had completed included,
\* the error message is set, isAnalyzing is false, no later stage is started
\* and the run does not navigate to the results page.
C30_FailureMarksAllSteps ==
    []((page # NoResult /\ page.pc = "failed") => []FailedRunState)

\* A run that failed in the analysis stage, after validation and crawling
\* had completed: all four steps are in error.
C30_Witness ==
    /\ page # NoResult /\ page.pc = "failed" /\ page.currentStep = 2
    /\ pageStore.crawlData # Absent
    /\ AllSteps("error")

\* The settings values found anywhere in a stored history entry
StoredSettingsFields(item) ==
    DOMAIN item.settings \cup DOMAIN item.resultData.settings

\* C29: no entry saveToHistory writes holds an API key: the only settings
\* values stored with an entry, at any depth of it, are the AI provider and
\* the analysis depth.
C29_NoApiKeyInHistory ==
    (ResultsShown /\ storage.t = "arr") =>
        \A i \in 1..Len(storage.v) :
            storage.v[i].id = page.shown.now =>
                StoredSettingsFields(storage.v[i]) \subseteq {"aiProvider", "analysisDepth"}

---------------------------------------------------------------------------
(* Entries of one URL close in time, under SpecHistory.                    *)

\* No two entries of the list have the same URL and timestamps less than
\* 60 seconds apart.
NoClosePair(list) ==
    \A i, j \in 1..Len(list) :
        (i < j /\ list[i].url = list[j].url) =>
            Abs(list[i].timestamp - list[j].timestamp) >= DEDUP_WINDOW_MS

\* C28: after any sequence of saveToHistory calls from an empty history no
\* two entries have the same URL and timestamps less than 60 seconds apart:
\* the empty history has no such pair, and a save that reads a history
\* without one writes a history without one.
C28_NoCloseEntriesOfOneUrl ==
    (lastOp.op = "save" /\ NoClosePair(lastOp.read)) => NoClosePair(storage.v)

=============================================================================
